---- MODULE Spec2Model ----
(***************************************************************************)
(* Beam state downloader (trinity/sync/beam/state.py) and the fast beacon  *)
(* state transition (eth2/beacon/state_machines/forks/altona/              *)
(* eth2fastspec.py), as state machines.                                    *)
(***************************************************************************)
EXTENDS Integers, Sequences, FiniteSets, TLC

(***************************************************************************)
(* Bounds of the downloader model.                                         *)
(***************************************************************************)
MaxCalls == 2
MaxStateFetch == 1
RequestBufferMultiplier == 1

Hashes == {1, 2}
Blobs == {1, 2}
Waiters == {1, 2}
Peers == {1, 2}
NoPeer == 1 - 1

\* keccak of a node body: a bijection from bodies to hashes that is not the
\* identity, so a (hash, body) pair can be inconsistent.
keccak(blob) == (blob % Cardinality(Hashes)) + 1

\* node bundles are sets of <<hash, body>> pairs
HashesOf(nodes) == {n[1] : n \in nodes}

\* raw replies of a peer: at most one body per hash, consistent or not
RawReplies ==
    {r \in SUBSET (Hashes \X Blobs) :
        \A m \in r, n \in r : m[1] = n[1] => m = n}

VARIABLES
    db,                    \* _db: the stored <<hash, body>> pairs
    node_tasks,            \* _node_tasks: the urgent TaskQueue
    maybe_useful_nodes,    \* _maybe_useful_nodes: the predictive TaskQueue
    new_data_events,       \* _new_data_events: waiters whose event is registered
    event_set,             \* waiter -> its asyncio.Event is set
    wpc,                   \* waiter -> position in ensure_nodes_present
    wreq,                  \* waiter -> [hashes, urgent, missing, remaining, toadd]
    wresult,               \* waiter -> returned count
    timed_out,             \* waiter -> timeout has elapsed since start_time
    upc,                   \* position of _match_urgent_node_requests_to_peers
    urgent_hashes,         \* batch popped by the urgent pipeline
    utask,                 \* peer -> state of its urgent _store_nodes task
    ures,                  \* peer -> nodes_returned of its urgent task
    done_order,            \* as_completed: finished urgent tasks not yet consumed
    nodes_returned,        \* nodes_returned when _find_urgent_nodes leaves its loop
    knights,               \* knights popped for the current urgent batch
    ppc,                   \* position of _match_predictive_node_requests_to_peers
    pred_hashes,           \* batch popped by the predictive pipeline
    ptask,                 \* peer -> batch of its running predictive task
    prunning,              \* peers with a running _get_predictive_nodes_from_peer
    queen,                 \* queen tracker: current queen (NoPeer when none)
    rotation,              \* queen tracker: peers available as knight / peasant
    desired_knight_count,  \* queen tracker: set_desired_knight_count
    num_peers,             \* _num_peers
    spread_factor,         \* _spread_factor
    min_predictive_peers,  \* _min_predictive_peers
    first_nonempty,        \* history: hashes of the first reply with nodes
    ncalls                 \* calls of ensure_nodes_present so far

dlVars == <<db, node_tasks, maybe_useful_nodes, new_data_events, event_set, wpc,
            wreq, wresult, timed_out, upc, urgent_hashes, utask, ures,
            done_order, nodes_returned, knights, ppc, pred_hashes, ptask,
            prunning, queen, rotation, desired_knight_count, num_peers,
            spread_factor, min_predictive_peers, first_nonempty, ncalls>>

\* the shuffling under test
VARIABLES
    input,                 \* the list shuffle_list / unshuffle_list mutate
    seed,                  \* the seed of the shuffling
    original,              \* history: the list before the first call
    trail                  \* history: the calls made, in order

shuffleVars == <<input, seed, original, trail>>

\* the committees of one epoch
VARIABLES
    indices_bounded,       \* (index, activation_epoch, exit_epoch) per validator
    shuffling_epoch        \* the ShufflingEpoch built last

committeeVars == <<indices_bounded, shuffling_epoch>>

\* a beacon chain under state_transition
VARIABLES
    state,                 \* the BeaconState the caller holds
    epochs_ctx,            \* the EpochsContext the caller passes in
    last_call,             \* history: the last call of state_transition
    ntransitions           \* calls of state_transition so far

beaconVars == <<state, epochs_ctx, last_call, ntransitions>>

\* a caller in download_account / download_storage
VARIABLES
    dpc,                   \* position in download_account / download_storage
    dreq,                  \* its arguments: [kind, path, urgent]
    num_downloads_required,\* the loop variable of `for ... in range(64)`
    dprobes,               \* history: what each probe found missing, in order
    dcalls,                \* history: the hash sets passed to ensure_nodes_present
    dresult                \* what the call returned or that it raised

downloadVars == <<dpc, dreq, num_downloads_required, dprobes, dcalls, dresult>>

\* calls of _request_nodes studied on their own
VARIABLES
    requests               \* history: the calls made, in order, each with what
                           \* it asked, what came of it and whom it penalized

requestVars == <<requests>>

vars == <<dlVars, shuffleVars, committeeVars, beaconVars, downloadVars, requestVars>>

\* what a specification of one part leaves alone
notBeam == <<shuffleVars, committeeVars, beaconVars, requestVars>>
notDL == <<notBeam, downloadVars>>
notShuffle == <<dlVars, committeeVars, beaconVars, downloadVars, requestVars>>
notCommittee == <<dlVars, shuffleVars, beaconVars, downloadVars, requestVars>>
notBeacon == <<dlVars, shuffleVars, committeeVars, downloadVars, requestVars>>

\* no download_account / download_storage call is under way
DownloadIdle ==
    /\ dpc = "idle"
    /\ dreq = [kind |-> "account", path |-> <<>>, urgent |-> TRUE]
    /\ num_downloads_required = 1 - 1
    /\ dprobes = <<>>
    /\ dcalls = <<>>
    /\ dresult = [outcome |-> "none", count |-> 1 - 1, account_rlp |-> 1 - 1]
    /\ requests = <<>>

\* the shuffling when it is not the part under study
ShuffleIdle == input = <<>> /\ seed = 1 - 1 /\ original = <<>> /\ trail = <<>>

\* the committees when they are not the part under study
CommitteeIdle ==
    /\ indices_bounded = <<>>
    /\ shuffling_epoch = [epoch |-> 1 - 1, active_indices |-> <<>>,
                          shuffling |-> <<>>, committees |-> <<>>]

\* the beacon chain when it is not the part under study
BeaconIdle ==
    state = <<>> /\ epochs_ctx = <<>> /\ last_call = <<>> /\ ntransitions = 0

Min(a, b) == IF a < b THEN a ELSE b
Max(a, b) == IF a > b THEN a ELSE b

(***************************************************************************)
(* TaskQueue (trinity/_utils/datastructures.py): tasks = pending + in      *)
(* progress, bounded by maxsize; get pops a batch, complete returns the    *)
(* uncompleted tasks of a batch to pending.                                *)
(***************************************************************************)
buffer_size == MaxStateFetch * RequestBufferMultiplier

EmptyQueue == [tasks |-> {}, pending |-> {}]

InQueue(q, h) == h \in q.tasks

OpenSlots(q) == buffer_size - Cardinality(q.tasks)

\* the parts of `new` that queue.add can queue while open slots remain
Queueable(q, new) ==
    {a \in SUBSET new : Cardinality(a) = Min(OpenSlots(q), Cardinality(new))}

QueueAdd(q, new) == [tasks |-> q.tasks \cup new, pending |-> q.pending \cup new]

\* the batches queue.get(max_results) may return
QueueBatches(q) ==
    {b \in SUBSET q.pending :
        Cardinality(b) = Min(MaxStateFetch, Cardinality(q.pending))}

QueueGet(q, batch) == [q EXCEPT !.pending = @ \ batch]

QueueComplete(q, batch, completed) ==
    [tasks |-> q.tasks \ (completed \cap batch),
     pending |-> q.pending \cup (batch \ completed)]

(***************************************************************************)
(* Local store and _store_nodes                                            *)
(***************************************************************************)
_is_node_missing(store, h) == \A n \in store : n[1] # h

_is_node_present(store, h) == \E n \in store : n[1] = h

\* Peer.get_node_data: the pairs of the raw reply that are self-consistent
get_node_data(raw) == {n \in raw : keccak(n[2]) = n[1]}

\* variant: a failed request hands back what had arrived, unchecked
_request_nodes_keep_partial(raw, error) == IF error THEN raw ELSE get_node_data(raw)

\* _request_nodes: a failed request (error = TRUE) is an empty reply
_request_nodes(raw, error) == IF error THEN {} ELSE get_node_data(raw)

\* new_nodes of _store_nodes
NewNodes(store, nodes) == {n \in nodes : _is_node_missing(store, n[1])}

\* the atomic batch of _store_nodes: batch[node_hash] = node
WriteBatch(store, new_nodes) ==
    {n \in store : n[1] \notin HashesOf(new_nodes)} \cup new_nodes

\* variant: events are set only when something new was written
EventsToSetOnNewData(urgent, new_nodes, events) ==
    IF new_nodes # {} THEN events ELSE {}

\* the events _store_nodes sets
EventsToSet(urgent, new_nodes, events) ==
    IF urgent \/ new_nodes # {} THEN events ELSE {}

SetEvents(es, fired) == [w \in Waiters |-> es[w] \/ w \in fired]

(***************************************************************************)
(* Queen tracker (trinity/sync/beam/queen.py), by its contract             *)
(***************************************************************************)
\* pop_knights: the desired number of peers of the rotation (fewer if short)
PopKnights(rot, desired) ==
    {ks \in SUBSET rot : Cardinality(ks) = Min(desired, Cardinality(rot))}

Connected == ({queen} \ {NoPeer}) \cup rotation \cup knights \cup prunning

\* register_peer, and the tracker learning of the peer
RegisterPeer(p) ==
    /\ p \notin Connected
    /\ \A r \in Peers : r < p => r \in Connected
    /\ num_peers' = num_peers + 1
    /\ IF queen = NoPeer
       THEN queen' = p /\ UNCHANGED rotation
       ELSE rotation' = rotation \cup {p} /\ UNCHANGED queen
    /\ UNCHANGED <<db, node_tasks, maybe_useful_nodes, new_data_events,
                   event_set, wpc, wreq, wresult, timed_out, upc, urgent_hashes,
                   utask, ures, done_order, nodes_returned, knights, ppc,
                   pred_hashes, ptask, prunning, desired_knight_count,
                   spread_factor, min_predictive_peers, first_nonempty, ncalls>>
    /\ UNCHANGED notDL

(***************************************************************************)
(* ensure_nodes_present / _wait_for_nodes / _node_hashes_present           *)
(***************************************************************************)
_max_spread_beam_factor == Max(0, num_peers - 1 - min_predictive_peers)

clamp(lo, hi, v) == Max(lo, Min(hi, v))

\* the spread factor after an urgent call of `n` hashes that was slow or not
NewSpreadFactor(n, slow) ==
    IF n = 1 /\ slow
    THEN clamp(0, _max_spread_beam_factor, spread_factor + 1)
    ELSE spread_factor

\* variant: the count is the number of hashes waited for
FoundCountRequested(missing, remaining) == Cardinality(missing)

\* the count _node_hashes_present returns
FoundCount(missing, remaining) == Cardinality(missing) - Cardinality(remaining)

\* the loop condition of _node_hashes_present
KeepWaiting(remaining, elapsed) == remaining # {} /\ ~elapsed

QueueOf(urgent) == IF urgent THEN node_tasks ELSE maybe_useful_nodes

SetQueue(urgent, q) ==
    IF urgent
    THEN node_tasks' = q /\ UNCHANGED maybe_useful_nodes
    ELSE maybe_useful_nodes' = q /\ UNCHANGED node_tasks

\* _node_hashes_present up to its first await: register a fresh event
StartWaiting(w) ==
    /\ new_data_events' = new_data_events \cup {w}
    /\ event_set' = [event_set EXCEPT ![w] = FALSE]
    /\ wpc' = [wpc EXCEPT ![w] = "waiting"]

\* a waiter slot is free before its first call and after a return
FreeSlot(w) == wpc[w] \in {"idle", "returned"}

unrequested_nodes_all(queue, missing_nodes) == missing_nodes

\* the hashes _wait_for_nodes hands to queue.add
unrequested_nodes(queue, missing_nodes) ==
    {h \in missing_nodes : ~InQueue(queue, h)}

\* ensure_nodes_present up to its first await, or to its return
ensure_nodes_present(w, H, urgent) ==
    /\ timed_out' = [timed_out EXCEPT ![w] = FALSE]
    /\ LET missing == {h \in H : _is_node_missing(db, h)}
           unrequested == unrequested_nodes(QueueOf(urgent), missing)
       IN IF missing = {}
          THEN /\ wpc' = [wpc EXCEPT ![w] = "returned"]
               /\ wresult' = [wresult EXCEPT ![w] = 0]
               /\ wreq' = [wreq EXCEPT ![w] =
                     [hashes |-> H, urgent |-> urgent, missing |-> {},
                      remaining |-> {}, toadd |-> {}]]
               /\ UNCHANGED <<node_tasks, maybe_useful_nodes, new_data_events,
                              event_set>>
          ELSE \E now \in Queueable(QueueOf(urgent), unrequested) :
               /\ SetQueue(urgent, QueueAdd(QueueOf(urgent), now))
               /\ wreq' = [wreq EXCEPT ![w] =
                     [hashes |-> H, urgent |-> urgent, missing |-> missing,
                      remaining |-> missing, toadd |-> unrequested \ now]]
               /\ IF unrequested \ now = {}
                  THEN StartWaiting(w)
                  ELSE /\ wpc' = [wpc EXCEPT ![w] = "adding"]
                       /\ UNCHANGED <<new_data_events, event_set>>
               /\ UNCHANGED wresult
    /\ UNCHANGED <<db, upc, urgent_hashes, utask, ures, done_order,
                   nodes_returned, knights, ppc, pred_hashes, ptask, prunning,
                   queen, rotation, desired_knight_count, num_peers,
                   spread_factor, min_predictive_peers, first_nonempty>>

\* a caller other than download_account / download_storage
EnsureNodesPresent(w, H, urgent) ==
    /\ ncalls < MaxCalls
    /\ FreeSlot(w)
    /\ \A v \in Waiters : v < w => ~FreeSlot(v)
    /\ ncalls' = ncalls + 1
    /\ ensure_nodes_present(w, H, urgent)
    /\ UNCHANGED notDL

\* queue.add resumes when the full queue has open slots again
QueueAddResume(w) ==
    /\ wpc[w] = "adding"
    /\ OpenSlots(QueueOf(wreq[w].urgent)) > 0
    /\ \E now \in Queueable(QueueOf(wreq[w].urgent), wreq[w].toadd) :
         /\ SetQueue(wreq[w].urgent, QueueAdd(QueueOf(wreq[w].urgent), now))
         /\ wreq' = [wreq EXCEPT ![w].toadd = @ \ now]
         /\ IF wreq[w].toadd \ now = {}
            THEN StartWaiting(w)
            ELSE UNCHANGED <<wpc, new_data_events, event_set>>
    /\ UNCHANGED <<db, wresult, timed_out, upc, urgent_hashes, utask, ures,
                   done_order, nodes_returned, knights, ppc, pred_hashes, ptask,
                   prunning, queen, rotation, desired_knight_count, num_peers,
                   spread_factor, min_predictive_peers, first_nonempty, ncalls>>
    /\ UNCHANGED notDL

\* time.monotonic() - start_time reaches the timeout
TimeoutElapses(w) ==
    /\ wpc[w] = "waiting"
    /\ ~timed_out[w]
    /\ timed_out' = [timed_out EXCEPT ![w] = TRUE]
    /\ UNCHANGED <<db, node_tasks, maybe_useful_nodes, new_data_events,
                   event_set, wpc, wreq, wresult, upc, urgent_hashes, utask,
                   ures, done_order, nodes_returned, knights, ppc, pred_hashes,
                   ptask, prunning, queen, rotation, desired_knight_count,
                   num_peers, spread_factor, min_predictive_peers, first_nonempty, ncalls>>
    /\ UNCHANGED notDL

\* new_data.wait() returns: one round of the loop of _node_hashes_present,
\* and the rest of ensure_nodes_present when the loop ends
NewDataWakes(w) ==
    /\ wpc[w] = "waiting"
    /\ event_set[w]
    /\ LET found == {h \in wreq[w].remaining : _is_node_present(db, h)}
           remaining == wreq[w].remaining \ found
       IN /\ event_set' = [event_set EXCEPT ![w] = FALSE]
          /\ IF KeepWaiting(remaining, timed_out[w])
             THEN /\ wreq' = [wreq EXCEPT ![w].remaining = remaining]
                  /\ UNCHANGED <<wpc, wresult, new_data_events, spread_factor,
                                 desired_knight_count, timed_out>>
             ELSE /\ wpc' = [wpc EXCEPT ![w] = "returned"]
                  /\ wreq' = [wreq EXCEPT ![w].missing = {}, ![w].remaining = {}]
                  /\ timed_out' = [timed_out EXCEPT ![w] = FALSE]
                  /\ new_data_events' = new_data_events \ {w}
                  /\ wresult' = [wresult EXCEPT ![w] =
                        FoundCount(wreq[w].missing, remaining)]
                  /\ IF wreq[w].urgent
                     THEN \E slow \in (IF timed_out[w] THEN {TRUE} ELSE BOOLEAN) :
                          LET n == NewSpreadFactor(Cardinality(wreq[w].hashes), slow)
                          IN /\ spread_factor' = n
                             /\ desired_knight_count' =
                                  IF n # spread_factor THEN n
                                  ELSE desired_knight_count
                     ELSE UNCHANGED <<spread_factor, desired_knight_count>>
    /\ UNCHANGED <<db, node_tasks, maybe_useful_nodes, upc,
                   urgent_hashes, utask, ures, done_order, nodes_returned,
                   knights, ppc, pred_hashes, ptask, prunning, queen, rotation,
                   num_peers, min_predictive_peers, first_nonempty, ncalls>>
    /\ UNCHANGED notDL

(***************************************************************************)
(* Urgent pipeline: _match_urgent_node_requests_to_peers, _find_urgent_nodes*)
(***************************************************************************)
\* queue.get of the urgent queue returns a batch
UrgentGet ==
    /\ upc = "get"
    /\ node_tasks.pending # {}
    /\ \E batch \in QueueBatches(node_tasks) :
         /\ node_tasks' = QueueGet(node_tasks, batch)
         /\ urgent_hashes' = batch
    /\ upc' = "queen"
    /\ UNCHANGED <<db, maybe_useful_nodes, new_data_events, event_set, wpc,
                   wreq, wresult, timed_out, utask, ures, done_order,
                   nodes_returned, knights, ppc, pred_hashes, ptask, prunning,
                   queen, rotation, desired_knight_count, num_peers,
                   spread_factor, min_predictive_peers, first_nonempty, ncalls>>
    /\ UNCHANGED notDL

\* get_queen_peer returns; _find_urgent_nodes pops the knights and creates one
\* _store_nodes task per peer
UrgentDispatch ==
    /\ upc = "queen"
    /\ queen # NoPeer
    /\ \E ks \in PopKnights(rotation, desired_knight_count) :
         /\ knights' = ks
         /\ rotation' = rotation \ ks
         /\ utask' = [p \in Peers |->
                        IF p \in {queen} \cup ks THEN "running" ELSE "none"]
    /\ ures' = [p \in Peers |-> {}]
    /\ done_order' = <<>>
    /\ nodes_returned' = {}
    /\ first_nonempty' = {}
    /\ upc' = "await"
    /\ UNCHANGED <<db, node_tasks, maybe_useful_nodes, new_data_events,
                   event_set, wpc, wreq, wresult, timed_out, urgent_hashes, ppc,
                   pred_hashes, ptask, prunning, queen, desired_knight_count,
                   num_peers, spread_factor, min_predictive_peers, ncalls>>
    /\ UNCHANGED notDL

\* The request of one urgent task ends (reply, error or reply timeout) and the
\* rest of its _store_nodes runs.
UrgentStoreNodes(p, raw, error) ==
    /\ utask[p] = "running"
    /\ LET nodes == _request_nodes(raw, error)
           new_nodes == NewNodes(db, nodes)
       IN /\ db' = WriteBatch(db, new_nodes)
          /\ event_set' = SetEvents(event_set,
                                    EventsToSet(TRUE, new_nodes, new_data_events))
          /\ ures' = [ures EXCEPT ![p] = nodes]
          /\ first_nonempty' = IF first_nonempty = {} THEN HashesOf(nodes)
                                ELSE first_nonempty
    /\ utask' = [utask EXCEPT ![p] = "done"]
    /\ done_order' = Append(done_order, p)
    /\ UNCHANGED <<node_tasks, maybe_useful_nodes, new_data_events, wpc, wreq,
                   wresult, timed_out, upc, urgent_hashes, nodes_returned,
                   knights, ppc, pred_hashes, ptask, prunning, queen, rotation,
                   desired_knight_count, num_peers, spread_factor,
                   min_predictive_peers, ncalls>>
    /\ UNCHANGED notDL

\* variant: the first reply ends the loop, empty or not
BreakOnFirstReply(nodes) == TRUE

\* line 399: a result ends the loop over as_completed
BreakOnResult(nodes) == Cardinality(nodes) > 0

\* leaving `async with cleanup_tasks(...)`: outstanding tasks are cancelled ...
CancelOutstanding(tasks) ==
    [p \in Peers |-> IF tasks[p] = "running" THEN "cancelling" ELSE tasks[p]]

\* ... and awaited
TasksFinished(tasks) == \A p \in Peers : tasks[p] \notin {"running", "cancelling"}

\* variant: the whole batch is completed
CompleteWholeBatch(nodes, batch) == batch

\* line 428: the hashes the batch is completed with
CompletedHashes(nodes, batch) == HashesOf(nodes)

\* as_completed yields the next finished task
UrgentNextResult ==
    /\ upc = "await"
    /\ done_order # <<>>
    /\ LET p == Head(done_order)
           last == Len(done_order) = 1 /\ \A r \in Peers : utask[r] # "running"
       IN IF BreakOnResult(ures[p]) \/ last
          THEN /\ nodes_returned' = ures[p]
               /\ utask' = CancelOutstanding(utask)
               /\ upc' = "cleanup"
               /\ done_order' = Tail(done_order)
          ELSE /\ done_order' = Tail(done_order)
               /\ UNCHANGED <<nodes_returned, utask, upc>>
    /\ UNCHANGED <<db, node_tasks, maybe_useful_nodes, new_data_events,
                   event_set, wpc, wreq, wresult, timed_out, urgent_hashes,
                   ures, knights, ppc, pred_hashes, ptask, prunning, queen,
                   rotation, desired_knight_count, num_peers, spread_factor,
                   min_predictive_peers, first_nonempty, ncalls>>
    /\ UNCHANGED notDL

\* a cancelled _store_nodes task takes its CancelledError
UrgentTaskCancelled(p) ==
    /\ utask[p] = "cancelling"
    /\ utask' = [utask EXCEPT ![p] = "cancelled"]
    /\ UNCHANGED <<db, node_tasks, maybe_useful_nodes, new_data_events,
                   event_set, wpc, wreq, wresult, timed_out, upc, urgent_hashes,
                   ures, done_order, nodes_returned, knights, ppc, pred_hashes,
                   ptask, prunning, queen, rotation, desired_knight_count,
                   num_peers, spread_factor, min_predictive_peers, first_nonempty, ncalls>>
    /\ UNCHANGED notDL

\* variant: only the knights that answered are reinserted
UrgentCompleteAnswered ==
    /\ upc = "cleanup"
    /\ TasksFinished(utask)
    /\ node_tasks' = QueueComplete(node_tasks, urgent_hashes,
                                   CompletedHashes(nodes_returned, urgent_hashes))
    /\ rotation' = rotation \cup {k \in knights : utask[k] = "done"}
    /\ knights' = {}
    /\ urgent_hashes' = {}
    /\ utask' = [p \in Peers |-> "none"]
    /\ ures' = [p \in Peers |-> {}]
    /\ done_order' = <<>>
    /\ nodes_returned' = {}
    /\ first_nonempty' = {}
    /\ upc' = "get"
    /\ UNCHANGED <<db, maybe_useful_nodes, new_data_events, event_set, wpc,
                   wreq, wresult, timed_out, ppc, pred_hashes, ptask,
                   prunning, queen, desired_knight_count, num_peers,
                   spread_factor, min_predictive_peers, ncalls>>
    /\ UNCHANGED notDL

\* the rest of _find_urgent_nodes: complete the batch, reinsert the knights
UrgentComplete ==
    /\ upc = "cleanup"
    /\ TasksFinished(utask)
    /\ node_tasks' = QueueComplete(node_tasks, urgent_hashes,
                                   CompletedHashes(nodes_returned, urgent_hashes))
    /\ rotation' = rotation \cup knights
    /\ knights' = {}
    /\ urgent_hashes' = {}
    /\ utask' = [p \in Peers |-> "none"]
    /\ ures' = [p \in Peers |-> {}]
    /\ done_order' = <<>>
    /\ nodes_returned' = {}
    /\ first_nonempty' = {}
    /\ upc' = "get"
    /\ UNCHANGED <<db, maybe_useful_nodes, new_data_events, event_set, wpc,
                   wreq, wresult, timed_out, ppc, pred_hashes, ptask,
                   prunning, queen, desired_knight_count, num_peers,
                   spread_factor, min_predictive_peers, ncalls>>
    /\ UNCHANGED notDL

\* _reduce_spread_factor: one period passed
\* variant: the tracker is not told
ReduceSpreadFactorUntold ==
    /\ spread_factor > 0
    /\ spread_factor' = spread_factor - 1
    /\ desired_knight_count' = desired_knight_count
    /\ UNCHANGED <<db, node_tasks, maybe_useful_nodes, new_data_events,
                   event_set, wpc, wreq, wresult, timed_out, upc, urgent_hashes,
                   utask, ures, done_order, nodes_returned, knights, ppc,
                   pred_hashes, ptask, prunning, queen, rotation, num_peers,
                   min_predictive_peers, first_nonempty, ncalls>>
    /\ UNCHANGED notDL

\* _reduce_spread_factor: one tick of the periodic task
ReduceSpreadFactor ==
    /\ spread_factor > 0
    /\ spread_factor' = spread_factor - 1
    /\ desired_knight_count' = spread_factor - 1
    /\ UNCHANGED <<db, node_tasks, maybe_useful_nodes, new_data_events,
                   event_set, wpc, wreq, wresult, timed_out, upc, urgent_hashes,
                   utask, ures, done_order, nodes_returned, knights, ppc,
                   pred_hashes, ptask, prunning, queen, rotation, num_peers,
                   min_predictive_peers, first_nonempty, ncalls>>
    /\ UNCHANGED notDL

(***************************************************************************)
(* Predictive pipeline: _match_predictive_node_requests_to_peers,          *)
(* _get_predictive_nodes_from_peer                                         *)
(***************************************************************************)
PredictiveGet ==
    /\ ppc = "get"
    /\ maybe_useful_nodes.pending # {}
    /\ \E batch \in QueueBatches(maybe_useful_nodes) :
         /\ maybe_useful_nodes' = QueueGet(maybe_useful_nodes, batch)
         /\ pred_hashes' = batch
    /\ ppc' = "peasant"
    /\ UNCHANGED <<db, node_tasks, new_data_events, event_set, wpc, wreq,
                   wresult, timed_out, upc, urgent_hashes, utask, ures,
                   done_order, nodes_returned, knights, ptask, prunning, queen,
                   rotation, desired_knight_count, num_peers, spread_factor,
                   min_predictive_peers, first_nonempty, ncalls>>
    /\ UNCHANGED notDL

\* no predictive hash arrived within TOO_LONG_PREDICTIVE_PEER_DELAY
PredictiveGetTimeout ==
    /\ ppc = "get"
    /\ maybe_useful_nodes.pending = {}
    /\ min_predictive_peers > 0
    /\ min_predictive_peers' = min_predictive_peers - 1
    /\ UNCHANGED <<db, node_tasks, maybe_useful_nodes, new_data_events,
                   event_set, wpc, wreq, wresult, timed_out, upc, urgent_hashes,
                   utask, ures, done_order, nodes_returned, knights, ppc,
                   pred_hashes, ptask, prunning, queen, rotation,
                   desired_knight_count, num_peers, spread_factor, first_nonempty, ncalls>>
    /\ UNCHANGED notDL

\* pop_fastest_peasant returns p; the request task is spawned, not awaited
PredictivePeasant(p) ==
    /\ ppc = "peasant"
    /\ p \in rotation
    /\ rotation' = rotation \ {p}
    /\ prunning' = prunning \cup {p}
    /\ ptask' = [ptask EXCEPT ![p] = pred_hashes]
    /\ pred_hashes' = {}
    /\ ppc' = "get"
    /\ UNCHANGED <<db, node_tasks, maybe_useful_nodes, new_data_events,
                   event_set, wpc, wreq, wresult, timed_out, upc, urgent_hashes,
                   utask, ures, done_order, nodes_returned, knights, queen,
                   desired_knight_count, num_peers, spread_factor,
                   min_predictive_peers, first_nonempty, ncalls>>
    /\ UNCHANGED notDL

\* no peasant within TOO_LONG_PREDICTIVE_PEER_DELAY
PredictivePeasantTimeout ==
    /\ ppc = "peasant"
    /\ rotation = {}
    /\ min_predictive_peers' = Min(min_predictive_peers + 1, num_peers \div 2)
    /\ maybe_useful_nodes' = QueueComplete(maybe_useful_nodes, pred_hashes, {})
    /\ pred_hashes' = {}
    /\ ppc' = "get"
    /\ UNCHANGED <<db, node_tasks, new_data_events, event_set, wpc, wreq,
                   wresult, timed_out, upc, urgent_hashes, utask, ures,
                   done_order, nodes_returned, knights, ptask, prunning, queen,
                   rotation, desired_knight_count, num_peers, spread_factor,
                   first_nonempty, ncalls>>
    /\ UNCHANGED notDL

\* variant: the whole batch is completed, whatever the peer returned
PredictiveStoreNodesWholeBatch(p, raw, error) ==
    /\ p \in prunning
    /\ LET nodes == _request_nodes(raw, error)
           new_nodes == NewNodes(db, nodes)
       IN /\ db' = WriteBatch(db, new_nodes)
          /\ event_set' = SetEvents(event_set,
                                    EventsToSet(FALSE, new_nodes, new_data_events))
          /\ maybe_useful_nodes' =
                QueueComplete(maybe_useful_nodes, ptask[p], ptask[p])
    /\ ptask' = [ptask EXCEPT ![p] = {}]
    /\ prunning' = prunning \ {p}
    /\ rotation' = rotation \cup {p}
    /\ UNCHANGED <<node_tasks, new_data_events, wpc, wreq, wresult, timed_out,
                   upc, urgent_hashes, utask, ures, done_order, nodes_returned,
                   knights, ppc, pred_hashes, queen, desired_knight_count,
                   num_peers, spread_factor, min_predictive_peers, first_nonempty, ncalls>>
    /\ UNCHANGED notDL

\* _get_predictive_nodes_from_peer after its request ended
PredictiveStoreNodes(p, raw, error) ==
    /\ p \in prunning
    /\ LET nodes == _request_nodes(raw, error)
           new_nodes == NewNodes(db, nodes)
       IN /\ db' = WriteBatch(db, new_nodes)
          /\ event_set' = SetEvents(event_set,
                                    EventsToSet(FALSE, new_nodes, new_data_events))
          /\ maybe_useful_nodes' =
                QueueComplete(maybe_useful_nodes, ptask[p], HashesOf(nodes))
    /\ ptask' = [ptask EXCEPT ![p] = {}]
    /\ prunning' = prunning \ {p}
    /\ rotation' = rotation \cup {p}
    /\ UNCHANGED <<node_tasks, new_data_events, wpc, wreq, wresult, timed_out,
                   upc, urgent_hashes, utask, ures, done_order, nodes_returned,
                   knights, ppc, pred_hashes, queen, desired_knight_count,
                   num_peers, spread_factor, min_predictive_peers, first_nonempty, ncalls>>
    /\ UNCHANGED notDL

(***************************************************************************)
(* The downloader                                                          *)
(***************************************************************************)
\* the hash sets callers ask for; the two hashes are interchangeable until the
\* first call is made
RequestSets ==
    IF ncalls = 0 THEN {{1}, {1, 2}} ELSE (SUBSET Hashes) \ {{}}

InitDL ==
    /\ db = {}
    /\ node_tasks = EmptyQueue
    /\ maybe_useful_nodes = EmptyQueue
    /\ new_data_events = {}
    /\ event_set = [w \in Waiters |-> FALSE]
    /\ wpc = [w \in Waiters |-> "idle"]
    /\ wreq = [w \in Waiters |->
                 [hashes |-> {}, urgent |-> TRUE, missing |-> {},
                  remaining |-> {}, toadd |-> {}]]
    /\ wresult = [w \in Waiters |-> 0]
    /\ timed_out = [w \in Waiters |-> FALSE]
    /\ upc = "get"
    /\ urgent_hashes = {}
    /\ utask = [p \in Peers |-> "none"]
    /\ ures = [p \in Peers |-> {}]
    /\ done_order = <<>>
    /\ nodes_returned = {}
    /\ knights = {}
    /\ ppc = "get"
    /\ pred_hashes = {}
    /\ ptask = [p \in Peers |-> {}]
    /\ prunning = {}
    /\ queen = NoPeer
    /\ rotation = {}
    /\ desired_knight_count = 0
    /\ num_peers = 0
    /\ spread_factor = 0
    /\ min_predictive_peers = 0
    /\ first_nonempty = {}
    /\ ncalls = 0
    /\ DownloadIdle
    /\ ShuffleIdle
    /\ CommitteeIdle
    /\ BeaconIdle

NextDL ==
    \/ \E p \in Peers : RegisterPeer(p)
    \/ \E w \in Waiters, H \in RequestSets, urgent \in BOOLEAN :
          EnsureNodesPresent(w, H, urgent)
    \/ \E w \in Waiters : QueueAddResume(w)
    \/ \E w \in Waiters : TimeoutElapses(w)
    \/ \E w \in Waiters : NewDataWakes(w)
    \/ UrgentGet
    \/ UrgentDispatch
    \/ \E p \in Peers, raw \in RawReplies, error \in BOOLEAN :
          UrgentStoreNodes(p, raw, error)
    \/ UrgentNextResult
    \/ \E p \in Peers : UrgentTaskCancelled(p)
    \/ UrgentComplete
    \/ ReduceSpreadFactor
    \/ PredictiveGet
    \/ PredictiveGetTimeout
    \/ \E p \in Peers : PredictivePeasant(p)
    \/ PredictivePeasantTimeout
    \/ \E p \in Peers, raw \in RawReplies, error \in BOOLEAN :
          PredictiveStoreNodes(p, raw, error)

SpecDL == InitDL /\ [][NextDL]_vars

\* what the event loop, the clock and the 10 s reply timeout guarantee: every
\* step that stays possible is taken; callers are free not to call
FairnessDL ==
    /\ WF_vars(\E p \in Peers : RegisterPeer(p))
    /\ \A w \in Waiters : WF_vars(QueueAddResume(w))
    /\ \A w \in Waiters : WF_vars(TimeoutElapses(w))
    /\ \A w \in Waiters : WF_vars(NewDataWakes(w))
    /\ WF_vars(UrgentGet)
    /\ WF_vars(UrgentDispatch)
    /\ \A p \in Peers :
         WF_vars(\E raw \in RawReplies, error \in BOOLEAN :
                    UrgentStoreNodes(p, raw, error))
    /\ WF_vars(UrgentNextResult)
    /\ \A p \in Peers : WF_vars(UrgentTaskCancelled(p))
    /\ WF_vars(UrgentComplete)
    /\ WF_vars(ReduceSpreadFactor)
    /\ WF_vars(PredictiveGet)
    /\ WF_vars(PredictiveGetTimeout)
    /\ WF_vars(\E p \in Peers : PredictivePeasant(p))
    /\ WF_vars(PredictivePeasantTimeout)
    /\ \A p \in Peers :
         WF_vars(\E raw \in RawReplies, error \in BOOLEAN :
                    PredictiveStoreNodes(p, raw, error))

SpecDLFair == InitDL /\ [][NextDL]_vars /\ FairnessDL

(***************************************************************************)
(* Properties of the downloader                                            *)
(***************************************************************************)
StoredHashes == {n[1] : n \in db}

AskedPeers == {p \in Peers : utask[p] # "none"}

\* C1: a call of ensure_nodes_present whose timeout has elapsed eventually
\* returns, whatever the peers deliver.
C1_ReturnsAfterTimeout ==
    \A w \in Waiters : (wpc[w] = "waiting" /\ timed_out[w]) ~> (wpc[w] = "returned")

\* C2: an urgent call that returned a count >= 1 has at least one of its
\* hashes in the store.
C2_ReturnedCountInStore ==
    \A w \in Waiters :
        (wpc[w] = "returned" /\ wreq[w].urgent /\ wresult[w] >= 1)
            => wreq[w].hashes \cap StoredHashes # {}

C2_Witness ==
    \E w \in Waiters :
        /\ wpc[w] = "returned" /\ wreq[w].urgent
        /\ wresult[w] = 1 /\ wreq[w].hashes = Hashes
        /\ prunning # {}

C4_FirstReplyWins ==
    /\ [](upc = "cleanup" => \A p \in Peers : utask[p] # "running")
    /\ [](upc = "get" => node_tasks.tasks = node_tasks.pending)
    /\ [][(upc = "cleanup" /\ upc' = "get") =>
            /\ \A p \in Peers : utask[p] \notin {"running", "cancelling"}
            /\ node_tasks' = QueueComplete(node_tasks, urgent_hashes, first_nonempty)
         ]_vars

C4_Witness ==
    /\ upc = "cleanup"
    /\ first_nonempty # {}
    /\ first_nonempty # urgent_hashes
    /\ \E p \in Peers : utask[p] = "cancelled"

\* C5: an empty urgent reply does not end the batch while another request is
\* outstanding; a later reply with nodes is stored and the waiter gets its
\* count; the batch is completed empty only when every asked peer was empty.
C5_EmptyReplyWaits ==
    /\ [](\A p \in Peers : utask[p] = "done" => HashesOf(ures[p]) \subseteq StoredHashes)
    /\ [][(upc = "cleanup" /\ upc' = "get" /\ nodes_returned = {}) =>
            \A p \in AskedPeers : utask[p] = "done" /\ ures[p] = {}]_vars
    /\ [][\A w \in Waiters :
            (wpc[w] = "waiting" /\ wpc'[w] = "returned") =>
                /\ wresult'[w] = Cardinality(wreq[w].missing \cap StoredHashes)
                /\ (wresult'[w] < Cardinality(wreq[w].missing) => timed_out[w])]_vars

C5_Witness ==
    \E p \in Peers, q \in Peers, w \in Waiters :
        /\ utask[p] = "done" /\ ures[p] = {}
        /\ utask[q] = "done" /\ ures[q] # {}
        /\ done_order \in {<<p, q>>, <<q>>}
        /\ wpc[w] = "returned" /\ wreq[w].urgent /\ wresult[w] = 1
        /\ wreq[w].hashes \subseteq HashesOf(ures[q])

(***************************************************************************)
(* Swap-or-not shuffling (eth2fastspec.py, shuffle_list, unshuffle_list,   *)
(* compute_shuffled_index).  Lists are sequences; position p of the code   *)
(* is element p + 1.  A seed is a number standing for its 32 bytes.        *)
(***************************************************************************)
SHUFFLE_ROUND_COUNT == 90

MaxTrail == 2
NumSeeds == 3

Seeds == 1..NumSeeds

\* sizes of the lists shuffled: below and above the 256 positions one source
\* hash serves
ListSizes == {0, 1, 2, 3, 7, 258}

Iota(n) == [k \in 1..n |-> k - 1]

Lists == {Iota(n) : n \in ListSizes} \cup {<<4, 9, 6, 11, 2>>}

\* hash_eth2: a digest of the bytes hashed, as 32 bytes numbered from 0;
\* the digest so far is never negative
RECURSIVE Digest(_, _, _)
Digest(buf, i, acc) ==
    IF i > Len(buf) \/ acc < 0 THEN acc
    ELSE Digest(buf, i + 1, (acc * 33 + buf[i] + 7) % 65521)

hash_eth2(buf) ==
    LET d == Digest(buf, 1, 5381)
    IN  [k \in 0..31 |-> (((d % 1021) + 1) * (k + 3) * 13 + (d \div 7) + k * k) % 256]

\* int.from_bytes(h[k:8], little) % n, reduced modulo n byte by byte
RECURSIVE BytesToIntMod(_, _, _)
BytesToIntMod(h, k, n) ==
    IF k > 7 THEN 0 ELSE (BytesToIntMod(h, k + 1, n) * 256 + h[k]) % n

\* variant: unshuffling starts at round 0
StartRoundZero(dir) == 0

\* the round _inner_shuffle_list starts at
StartRound(dir) == IF dir THEN 0 ELSE SHUFFLE_ROUND_COUNT - 1

\* variant: the source hash of the first position is kept for all
NeverNewSource(j) == FALSE

\* j & 0xFF == 0xFF: position j opens a window of 256 positions
NeedsNewSource(j) == j % 256 = 255

\* the body of a `while i < mirror` loop for the pair (i, j);
\* st = [input, source, byteV]
SwapPair(st, i, j, sd, r) ==
    LET source == IF NeedsNewSource(j)
                  THEN hash_eth2(<<sd, r, j \div 256>>) ELSE st.source
        byteV == IF j % 8 = 7 THEN source[(j % 256) \div 8] ELSE st.byteV
        bitV == (byteV \div (2 ^ (j % 8))) % 2
    IN  [input |-> IF bitV = 1
                   THEN [st.input EXCEPT ![i + 1] = st.input[j + 1],
                                         ![j + 1] = st.input[i + 1]]
                   ELSE st.input,
         source |-> source,
         byteV |-> byteV]

\* n iterations of a `while i < mirror` loop from the pair (i, j): the first
\* half of them, then the rest (i, j = i + 1, j - 1 after each).  A list of
\* at most one element has no pair to swap.
RECURSIVE SwapPairs(_, _, _, _, _, _)
SwapPairs(st, i, j, n, sd, r) ==
    IF n <= 0 \/ Len(st.input) <= 1 THEN st
    ELSE IF n = 1 THEN SwapPair(st, i, j, sd, r)
    ELSE LET half == n \div 2
         IN  SwapPairs(SwapPairs(st, i, j, half, sd, r),
                       i + half, j - half, n - half, sd, r)

\* the body of `while True` for round r
ShuffleRound(list, sd, r) ==
    LET listSize == Len(list)
        h == hash_eth2(<<sd, r>>)
        pivot == BytesToIntMod(h, 0, listSize)
        mirror1 == (pivot + 1) \div 2
        source1 == hash_eth2(<<sd, r, pivot \div 256>>)
        first == SwapPairs([input |-> list, source |-> source1,
                            byteV |-> source1[(pivot % 256) \div 8]],
                           0, pivot, mirror1 - 0, sd, r)
        mirror2 == (pivot + listSize + 1) \div 2
        end == listSize - 1
        source2 == hash_eth2(<<sd, r, end \div 256>>)
    IN  SwapPairs([input |-> first.input, source |-> source2,
                   byteV |-> source2[(end % 256) \div 8]],
                  pivot + 1, end, mirror2 - (pivot + 1), sd, r).input

\* the rounds the `while True` loop runs from round `start`: up to
\* SHUFFLE_ROUND_COUNT - 1 when shuffling, down to 0 when unshuffling
RoundsToRun(start, dir) == IF dir THEN SHUFFLE_ROUND_COUNT - start ELSE start + 1

\* n passes of the `while True` loop from round r: the first half of them,
\* then the rest.  The length of the list, which no round changes, is more
\* than 1 (line 172).
RECURSIVE ShuffleRounds(_, _, _, _, _)
ShuffleRounds(list, sd, r, n, dir) ==
    IF Len(list) <= 1 THEN list
    ELSE IF n <= 1 THEN ShuffleRound(list, sd, r)
    ELSE LET half == n \div 2
         IN  ShuffleRounds(ShuffleRounds(list, sd, r, half, dir), sd,
                           IF dir THEN r + half ELSE r - half, n - half, dir)

_inner_shuffle_list(list, sd, dir) ==
    IF Len(list) <= 1 THEN list
    ELSE ShuffleRounds(list, sd, StartRound(dir),
                       RoundsToRun(StartRound(dir), dir), dir)

\* the body of the loop of compute_shuffled_index
ShuffledIndexRound(index, index_count, sd, current_round) ==
    LET pivot == BytesToIntMod(hash_eth2(<<sd, current_round>>), 0, index_count)
        flip == (pivot + index_count - index) % index_count
        position == Max(index, flip)
        source == hash_eth2(<<sd, current_round, position \div 256>>)
        byte == source[(position % 256) \div 8]
        bit == (byte \div (2 ^ (position % 8))) % 2
    IN  IF bit = 1 THEN flip ELSE index

\* rounds current_round .. current_round + n - 1 of that loop; the index is
\* below index_count throughout (line 311 and the modulus of flip)
RECURSIVE ShuffledIndexRounds(_, _, _, _, _)
ShuffledIndexRounds(index, index_count, sd, current_round, n) ==
    IF n <= 0 \/ index >= index_count THEN index
    ELSE IF n = 1 THEN ShuffledIndexRound(index, index_count, sd, current_round)
    ELSE LET half == n \div 2
         IN  ShuffledIndexRounds(
                 ShuffledIndexRounds(index, index_count, sd, current_round, half),
                 index_count, sd, current_round + half, n - half)

compute_shuffled_index(index, index_count, sd) ==
    ShuffledIndexRounds(index, index_count, sd, 0, SHUFFLE_ROUND_COUNT)

\* shuffle_list(input, seed)
shuffle_list ==
    /\ Len(trail) < MaxTrail
    /\ input' = _inner_shuffle_list(input, seed, TRUE)
    /\ trail' = Append(trail, "shuffle")
    /\ UNCHANGED <<seed, original>>
    /\ UNCHANGED notShuffle

\* unshuffle_list(input, seed)
unshuffle_list ==
    /\ Len(trail) < MaxTrail
    /\ input' = _inner_shuffle_list(input, seed, FALSE)
    /\ trail' = Append(trail, "unshuffle")
    /\ UNCHANGED <<seed, original>>
    /\ UNCHANGED notShuffle

DownloaderIdle ==
    /\ DownloadIdle
    /\ db = {}
    /\ node_tasks = EmptyQueue
    /\ maybe_useful_nodes = EmptyQueue
    /\ new_data_events = {}
    /\ event_set = [w \in Waiters |-> FALSE]
    /\ wpc = [w \in Waiters |-> "idle"]
    /\ wreq = [w \in Waiters |->
                 [hashes |-> {}, urgent |-> TRUE, missing |-> {},
                  remaining |-> {}, toadd |-> {}]]
    /\ wresult = [w \in Waiters |-> 0]
    /\ timed_out = [w \in Waiters |-> FALSE]
    /\ upc = "get"
    /\ urgent_hashes = {}
    /\ utask = [p \in Peers |-> "none"]
    /\ ures = [p \in Peers |-> {}]
    /\ done_order = <<>>
    /\ nodes_returned = {}
    /\ knights = {}
    /\ ppc = "get"
    /\ pred_hashes = {}
    /\ ptask = [p \in Peers |-> {}]
    /\ prunning = {}
    /\ queen = NoPeer
    /\ rotation = {}
    /\ desired_knight_count = 0
    /\ num_peers = 0
    /\ spread_factor = 0
    /\ min_predictive_peers = 0
    /\ first_nonempty = {}
    /\ ncalls = 0

InitShuffle ==
    /\ seed \in Seeds
    /\ original \in Lists
    /\ input = original
    /\ trail = <<>>
    /\ DownloaderIdle
    /\ CommitteeIdle
    /\ BeaconIdle

NextShuffle == shuffle_list \/ unshuffle_list

SpecShuffle == InitShuffle /\ [][NextShuffle]_vars

(***************************************************************************)
(* Properties of the shuffling                                             *)
(***************************************************************************)
Elements(list) == {list[k] : k \in 1..Len(list)}

\* C8: shuffle_list and unshuffle_list with one seed are inverse to each
\* other, in either order, and each permutes the list.
C8_ShuffleUnshuffleInverse ==
    /\ Len(input) = Len(original) /\ Elements(input) = Elements(original)
    /\ trail \in {<<"shuffle", "unshuffle">>, <<"unshuffle", "shuffle">>}
           => input = original

C8_Witness ==
    /\ trail = <<"shuffle", "unshuffle">>
    /\ Len(original) > 256

\* C9: after unshuffle_list position i holds the element the single-index
\* shuffle maps i to.
C9_UnshuffleAgreesWithIndex ==
    trail = <<"unshuffle">> =>
        \A i \in 0..(Len(original) - 1) :
            input[i + 1] = original[compute_shuffled_index(i, Len(original), seed) + 1]

C9_Witness ==
    /\ trail = <<"unshuffle">>
    /\ Len(original) > 256
    /\ \E i \in 256..(Len(original) - 1) : input[i + 1] # original[i + 1]

(***************************************************************************)
(* Committees of an epoch (eth2fastspec.py, compute_committee_count and    *)
(* ShufflingEpoch).  The presets are scaled down so that a dozen           *)
(* validators reach every branch; epochs are scaled with them.             *)
(***************************************************************************)
SLOTS_PER_EPOCH == 2
TARGET_COMMITTEE_SIZE == 2
MAX_COMMITTEES_PER_SLOT == 2

MaxValidators == 13
MaxEpoch == 3

\* FAR_FUTURE_EPOCH (2^64 - 1): an epoch after every epoch reached
FAR_FUTURE_EPOCH == MaxEpoch + 1000

\* variant: no upper limit on the committees of a slot
compute_committee_count_unlimited(active_validators_count) ==
    LET validators_per_slot == active_validators_count \div SLOTS_PER_EPOCH
        committees_per_slot == validators_per_slot \div TARGET_COMMITTEE_SIZE
    IN  IF committees_per_slot = 0 THEN 1 ELSE committees_per_slot

compute_committee_count(active_validators_count) ==
    LET validators_per_slot == active_validators_count \div SLOTS_PER_EPOCH
        committees_per_slot == validators_per_slot \div TARGET_COMMITTEE_SIZE
        limited == IF MAX_COMMITTEES_PER_SLOT < committees_per_slot
                   THEN MAX_COMMITTEES_PER_SLOT ELSE committees_per_slot
    IN  IF limited = 0 THEN 1 ELSE limited

\* activation_epoch <= epoch < exit_epoch, on an entry of indices_bounded
IsActiveBounded(b, ep) == b[2] <= ep /\ ep < b[3]

RECURSIVE ActiveIndices(_, _, _)
ActiveIndices(bounded, ep, k) ==
    IF k > Len(bounded) THEN <<>>
    ELSE (IF IsActiveBounded(bounded[k], ep) THEN <<bounded[k][1]>> ELSE <<>>)
         \o ActiveIndices(bounded, ep, k + 1)

\* ShufflingEpoch.__init__, given the seed get_seed returns for the epoch
ShufflingEpoch(sd, bounded, ep) ==
    LET active_indices == ActiveIndices(bounded, ep, 1)
        shuffling == _inner_shuffle_list(active_indices, sd, FALSE)
        active_validator_count == Len(active_indices)
        committees_per_slot == compute_committee_count(active_validator_count)
        committee_count == committees_per_slot * SLOTS_PER_EPOCH
        slice_committee(slot, comm_index) ==
            LET index == (slot * committees_per_slot) + comm_index
                start_offset == (active_validator_count * index) \div committee_count
                end_offset ==
                    (active_validator_count * (index + 1)) \div committee_count
            IN  SubSeq(shuffling, start_offset + 1, end_offset)
    IN  [epoch |-> ep,
         active_indices |-> active_indices,
         shuffling |-> shuffling,
         committees |->
             [slot \in 1..SLOTS_PER_EPOCH |->
                 [comm_index \in 1..committees_per_slot |->
                     slice_committee(slot - 1, comm_index - 1)]]]

\* the validator sets the committees are built from: who is active when
BoundsPatterns == 1..4

PatternBounds(pattern, i) ==
    CASE pattern = 1 -> <<i, 0, FAR_FUTURE_EPOCH>>
      [] pattern = 2 -> <<i, i % 3, FAR_FUTURE_EPOCH>>
      [] pattern = 3 -> <<i, 0, 1 + (i % 3)>>
      [] OTHER -> <<i, IF i % 2 = 1 THEN FAR_FUTURE_EPOCH ELSE 0, FAR_FUTURE_EPOCH>>

\* a new epoch's shuffling is built (load_state, rotate_epochs)
NewShufflingEpoch(sd) ==
    /\ shuffling_epoch.epoch < MaxEpoch
    /\ shuffling_epoch' =
          ShufflingEpoch(sd, indices_bounded, shuffling_epoch.epoch + 1)
    /\ UNCHANGED indices_bounded
    /\ UNCHANGED notCommittee

InitCommittee ==
    /\ \E n \in 0..MaxValidators, pattern \in BoundsPatterns :
          indices_bounded = [k \in 1..n |-> PatternBounds(pattern, k - 1)]
    /\ \E sd \in Seeds : shuffling_epoch = ShufflingEpoch(sd, indices_bounded, 0)
    /\ DownloaderIdle
    /\ ShuffleIdle
    /\ BeaconIdle

NextCommittee == \E sd \in Seeds : NewShufflingEpoch(sd)

SpecCommittee == InitCommittee /\ [][NextCommittee]_vars

(***************************************************************************)
(* Properties of the committees                                            *)
(***************************************************************************)
\* the committees of an epoch in order: slot by slot, index by index
RECURSIVE CommitteesInOrder(_, _)
CommitteesInOrder(committees, slot) ==
    IF slot > Len(committees) THEN <<>>
    ELSE committees[slot] \o CommitteesInOrder(committees, slot + 1)

RECURSIVE Concat(_, _)
Concat(lists, k) ==
    IF k > Len(lists) THEN <<>> ELSE lists[k] \o Concat(lists, k + 1)

ActiveSet(bounded, ep) ==
    {bounded[k][1] : k \in {m \in 1..Len(bounded) : bounded[m][2] <= ep /\ ep < bounded[m][3]}}

\* C10: the committees of a shuffling are pairwise disjoint and cover the
\* active validators; committee k of C is the window [n*k/C, n*(k+1)/C) of
\* the shuffled list; every slot has the same number of committees, between
\* 1 and MAX_COMMITTEES_PER_SLOT.
C10_CommitteesPartition ==
    LET all == CommitteesInOrder(shuffling_epoch.committees, 1)
        C == Len(all)
        n == Len(shuffling_epoch.shuffling)
        active == ActiveSet(indices_bounded, shuffling_epoch.epoch)
    IN  /\ Len(shuffling_epoch.committees) = SLOTS_PER_EPOCH
        /\ \A slot \in 1..SLOTS_PER_EPOCH :
              /\ Len(shuffling_epoch.committees[slot]) >= 1
              /\ Len(shuffling_epoch.committees[slot]) <= MAX_COMMITTEES_PER_SLOT
              /\ Len(shuffling_epoch.committees[slot]) =
                     Len(shuffling_epoch.committees[1])
        /\ \A k \in 1..C :
              all[k] = [m \in 1..(((n * k) \div C) - ((n * (k - 1)) \div C)) |->
                           shuffling_epoch.shuffling[((n * (k - 1)) \div C) + m]]
        /\ \A k1 \in 1..C, k2 \in 1..C :
              k1 # k2 => Elements(all[k1]) \cap Elements(all[k2]) = {}
        /\ UNION {Elements(all[k]) : k \in 1..C} = active
        /\ Len(Concat(all, 1)) = Cardinality(active)

C10_Witness ==
    /\ shuffling_epoch.epoch > 0
    /\ Len(shuffling_epoch.committees[1]) = MAX_COMMITTEES_PER_SLOT
    /\ Len(shuffling_epoch.shuffling) > MAX_COMMITTEES_PER_SLOT * SLOTS_PER_EPOCH
           * TARGET_COMMITTEE_SIZE
    /\ Len(shuffling_epoch.shuffling) < Len(indices_bounded)
    /\ shuffling_epoch.shuffling # shuffling_epoch.active_indices

(***************************************************************************)
(* The beacon state transition (eth2fastspec.py, state_transition).  The   *)
(* BeaconState is a record updated by value; the EpochsContext is the one  *)
(* object the caller passes in, which the code updates in place.  A        *)
(* validator index i of the code is element i + 1 of a sequence; vectors   *)
(* are functions from 0.  Balances are scaled so that they fit 32 bits;    *)
(* periods and vector lengths are scaled with the epochs.                  *)
(***************************************************************************)
MaxTransitions == 2
MaxSkip == 2
GenesisValidators == 3
MaxSamples == 64

EFFECTIVE_BALANCE_INCREMENT == 1024
MAX_EFFECTIVE_BALANCE == 4 * EFFECTIVE_BALANCE_INCREMENT
EJECTION_BALANCE == 2 * EFFECTIVE_BALANCE_INCREMENT
MAX_SEED_LOOKAHEAD == 1
EPOCHS_PER_ETH1_VOTING_PERIOD == 1
SLOTS_PER_HISTORICAL_ROOT == 8
MIN_VALIDATOR_WITHDRAWABILITY_DELAY == 2
SHARD_COMMITTEE_PERIOD == 1
EPOCHS_PER_HISTORICAL_VECTOR == 4
EPOCHS_PER_SLASHINGS_VECTOR == 4

BASE_REWARDS_PER_EPOCH == 4
DEPOSIT_CONTRACT_TREE_DEPTH == 32
JUSTIFICATION_BITS_LENGTH == 4
MIN_PER_EPOCH_CHURN_LIMIT == 4
CHURN_LIMIT_QUOTIENT == 65536
HYSTERESIS_QUOTIENT == 4
HYSTERESIS_DOWNWARD_MULTIPLIER == 1
HYSTERESIS_UPWARD_MULTIPLIER == 5
MIN_ATTESTATION_INCLUSION_DELAY == 1
MIN_SEED_LOOKAHEAD == 1
MIN_EPOCHS_TO_INACTIVITY_PENALTY == 4
BASE_REWARD_FACTOR == 64
WHISTLEBLOWER_REWARD_QUOTIENT == 512
PROPOSER_REWARD_QUOTIENT == 8
INACTIVITY_PENALTY_QUOTIENT == 16777216
MIN_SLASHING_PENALTY_QUOTIENT == 32
MAX_DEPOSITS == 1
GENESIS_EPOCH == 1 - 1

\* the domain types, by their first byte
DOMAIN_BEACON_PROPOSER == 1 - 1
DOMAIN_BEACON_ATTESTER == 1
DOMAIN_RANDAO == 2
DOMAIN_DEPOSIT == 3
DOMAIN_VOLUNTARY_EXIT == 4

SLOTS_PER_ETH1_VOTING_PERIOD == EPOCHS_PER_ETH1_VOTING_PERIOD * SLOTS_PER_EPOCH
HYSTERESIS_INCREMENT == EFFECTIVE_BALANCE_INCREMENT \div HYSTERESIS_QUOTIENT
DOWNWARD_THRESHOLD == HYSTERESIS_INCREMENT * HYSTERESIS_DOWNWARD_MULTIPLIER
UPWARD_THRESHOLD == HYSTERESIS_INCREMENT * HYSTERESIS_UPWARD_MULTIPLIER

\* sum(seq[k:])
RECURSIVE Sum(_, _)
Sum(seq, k) == IF k > Len(seq) THEN 0 ELSE seq[k] + Sum(seq, k + 1)

SetMax(S) == CHOOSE x \in S : \A y \in S : y <= x

\* sorted(S) for a set of integers
RECURSIVE Sorted(_)
Sorted(S) ==
    IF S = {} THEN <<>>
    ELSE LET least == CHOOSE x \in S : \A y \in S : x <= y
         IN  <<least>> \o Sorted(S \ {least})

\* a vector as the sequence of its entries
Vec(f, n) == [k \in 1..n |-> f[k - 1]]

Root(fields) == Digest(fields, 1, 5381)

\* a signature names who signed what; bls_Verify and
\* bls_FastAggregateVerify accept it for these keys and this message only
Sign(pubkeys, message) == [signers |-> pubkeys, message |-> message]
NoSignature == Sign(<<>>, <<>>)
bls_Verify(PK, message, signature) == signature = Sign(<<PK>>, message)
bls_FastAggregateVerify(pubkeys, message, signature) ==
    signature = Sign(pubkeys, message)

\* compute_signing_root(object, get_domain(...)): the domain type and the
\* fields of the object signed
compute_signing_root(fields, domain) == <<domain>> \o fields

RECURSIVE integer_squareroot_loop(_, _, _)
integer_squareroot_loop(x, y, n) ==
    IF y < x THEN integer_squareroot_loop(y, (y + (n \div y)) \div 2, n) ELSE x

integer_squareroot(n) == integer_squareroot_loop(n, (n + 1) \div 2, n)

RECURSIVE XorBits(_, _, _)
XorBits(a, b, n) ==
    IF n = 0 THEN 0
    ELSE ((a + b) % 2) + 2 * XorBits(a \div 2, b \div 2, n - 1)

xor(bytes_1, bytes_2) == [k \in 0..31 |-> XorBits(bytes_1[k], bytes_2[k], 8)]

compute_epoch_at_slot(slot) == slot \div SLOTS_PER_EPOCH
compute_start_slot_at_epoch(epoch) == epoch * SLOTS_PER_EPOCH
compute_activation_exit_epoch(epoch) == epoch + 1 + MAX_SEED_LOOKAHEAD
get_churn_limit(active_validator_count) ==
    Max(MIN_PER_EPOCH_CHURN_LIMIT, active_validator_count \div CHURN_LIMIT_QUOTIENT)
is_active_validator(v, epoch) == v.activation_epoch <= epoch /\ epoch < v.exit_epoch

\* hash_tree_root of the containers hashed: the digest of the fields, a
\* list or vector by the digest of its entries
AttestationDataFields(data) ==
    <<data.slot, data.index, data.beacon_block_root, data.source.epoch,
      data.source.root, data.target.epoch, data.target.root>>

HeaderFields(h) ==
    <<h.slot, h.proposer_index, h.parent_root, h.state_root, h.body_root>>

Eth1DataFields(e) == <<e.deposit_root, e.deposit_count, e.block_hash>>

DepositDataFields(d) ==
    <<d.pubkey, d.amount>> \o d.signature.signers \o d.signature.message

hash_tree_root_body(body) ==
    LET sig(x) == x.signers \o x.message
        ia(a) == a.attesting_indices \o AttestationDataFields(a.data)
                     \o sig(a.signature)
        bits(b) == [k \in 1..Len(b) |-> IF b[k] THEN 1 ELSE 0]
        each(ops, F(_)) == Root([k \in 1..Len(ops) |-> Root(F(ops[k]))])
    IN  Root(<<Root(sig(body.randao_reveal)),
               Root(Eth1DataFields(body.eth1_data)),
               each(body.proposer_slashings,
                    LAMBDA p : HeaderFields(p.signed_header_1.message)
                               \o sig(p.signed_header_1.signature)
                               \o HeaderFields(p.signed_header_2.message)
                               \o sig(p.signed_header_2.signature)),
               each(body.attester_slashings,
                    LAMBDA a : <<Root(ia(a.attestation_1)),
                                 Root(ia(a.attestation_2))>>),
               each(body.attestations,
                    LAMBDA a : bits(a.aggregation_bits)
                               \o AttestationDataFields(a.data)
                               \o sig(a.signature)),
               each(body.deposits,
                    LAMBDA d : d.proof \o DepositDataFields(d.data)),
               each(body.voluntary_exits,
                    LAMBDA e : <<e.message.epoch, e.message.validator_index>>
                               \o sig(e.signature))>>)

hash_tree_root_state(s) ==
    LET bit(b) == IF b THEN 1 ELSE 0
        each(list, F(_)) == Root([k \in 1..Len(list) |-> Root(F(list[k]))])
        pending(a) == [k \in 1..Len(a.aggregation_bits) |->
                          bit(a.aggregation_bits[k])]
                      \o AttestationDataFields(a.data)
                      \o <<a.inclusion_delay, a.proposer_index>>
        checkpoint(c) == Root(<<c.epoch, c.root>>)
    IN  Root(<<s.slot,
               Root(HeaderFields(s.latest_block_header)),
               Root(Vec(s.block_roots, SLOTS_PER_HISTORICAL_ROOT)),
               Root(Vec(s.state_roots, SLOTS_PER_HISTORICAL_ROOT)),
               Root(Eth1DataFields(s.eth1_data)),
               each(s.eth1_data_votes, Eth1DataFields),
               s.eth1_deposit_index,
               each(s.validators,
                    LAMBDA v : <<v.pubkey, v.effective_balance, bit(v.slashed),
                                 v.activation_eligibility_epoch,
                                 v.activation_epoch, v.exit_epoch,
                                 v.withdrawable_epoch>>),
               Root(s.balances),
               each(Vec(s.randao_mixes, EPOCHS_PER_HISTORICAL_VECTOR),
                    LAMBDA mix : Vec(mix, 32)),
               Root(Vec(s.slashings, EPOCHS_PER_SLASHINGS_VECTOR)),
               each(s.previous_epoch_attestations, pending),
               each(s.current_epoch_attestations, pending),
               Root([k \in 1..Cardinality(DOMAIN s.justification_bits) |->
                        bit(s.justification_bits[k - 1])]),
               checkpoint(s.previous_justified_checkpoint),
               checkpoint(s.current_justified_checkpoint),
               checkpoint(s.finalized_checkpoint)>>)

get_randao_mix(s, epoch) == s.randao_mixes[epoch % EPOCHS_PER_HISTORICAL_VECTOR]

\* get_seed: the hash of the domain type, the epoch and the mix of
\* MIN_SEED_LOOKAHEAD + 1 epochs before it
get_seed(s, epoch, domain_type) ==
    Root(<<domain_type, epoch>>
         \o Vec(get_randao_mix(s, epoch + EPOCHS_PER_HISTORICAL_VECTOR
                                    - MIN_SEED_LOOKAHEAD - 1), 32))

\* s.ledger is a history of the amounts the transitions computed, kept
\* beside the fields of BeaconState: what was to be added to balances
\* (rewards, deposits), what was to be taken from them (penalties, slashing
\* penalties), and how much of that no balance was left to pay
Credited(s, amount) == [s EXCEPT !.ledger.credited = @ + amount]

Charged(s, amount, unpaid) ==
    [s EXCEPT !.ledger.charged = @ + amount, !.ledger.clipped = @ + unpaid]

increase_balance(s, index, delta) ==
    Credited([s EXCEPT !.balances[index + 1] = @ + delta], delta)

decrease_balance(s, index, delta) ==
    Charged([s EXCEPT !.balances[index + 1] = IF delta > @ THEN 0 ELSE @ - delta],
            delta,
            IF delta > s.balances[index + 1] THEN delta - s.balances[index + 1]
            ELSE 0)

get_block_root_at_slot(s, slot) == s.block_roots[slot % SLOTS_PER_HISTORICAL_ROOT]

\* the assertion of get_block_root_at_slot
BlockRootKnown(s, slot) ==
    slot < s.slot /\ s.slot <= slot + SLOTS_PER_HISTORICAL_ROOT

(***************************************************************************)
(* A run of state_transition: the BeaconState the code holds (state), the  *)
(* object the caller passed in as the pre-state (held), the EpochsContext  *)
(* (ctx), whether an assertion or exception has ended the run (ok, at),    *)
(* and the steps that produced a new state so far (done).                  *)
(***************************************************************************)
Fail(t, where) == [t EXCEPT !.ok = FALSE, !.at = where]

IndicesBounded(s) ==
    [k \in 1..Len(s.validators) |->
        <<k - 1, s.validators[k].activation_epoch, s.validators[k].exit_epoch>>]

\* the `while True` loop of compute_proposer_index from sample i; the
\* result is -1 when no sample up to MaxSamples is accepted
RECURSIVE compute_proposer_index_from(_, _, _, _)
compute_proposer_index_from(s, indices, sd, i) ==
    LET candidate_index ==
            indices[compute_shuffled_index(i % Len(indices), Len(indices), sd) + 1]
        random_byte == hash_eth2(<<sd, i \div 32>>)[i % 32]
        effective_balance == s.validators[candidate_index + 1].effective_balance
    IN  IF i >= MaxSamples THEN -1
        ELSE IF effective_balance * 255 >= MAX_EFFECTIVE_BALANCE * random_byte
        THEN candidate_index
        ELSE compute_proposer_index_from(s, indices, sd, i + 1)

compute_proposer_index(s, indices, sd) ==
    compute_proposer_index_from(s, indices, sd, 0)

\* EpochsContext._reset_proposers, on a run: it raises when no validator
\* is active in the current shuffling
_reset_proposers(t, s) ==
    LET current == t.ctx.current_shuffling
        epoch_seed == get_seed(s, current.epoch, DOMAIN_BEACON_PROPOSER)
        start_slot == compute_start_slot_at_epoch(current.epoch)
        proposers ==
            [k \in 1..SLOTS_PER_EPOCH |->
                compute_proposer_index(s, current.active_indices,
                                       Root(<<epoch_seed, start_slot + k - 1>>))]
    IN  IF Len(current.active_indices) = 0
        THEN Fail(t, "compute_proposer_index: len(indices) > 0")
        ELSE IF \E k \in 1..SLOTS_PER_EPOCH : proposers[k] < 0
        THEN Fail(t, "compute_proposer_index: no sample accepted")
        ELSE [t EXCEPT !.ctx.proposers = proposers]

\* EpochsContext.sync_pubkeys, on the context
sync_pubkeys(ctx, s) ==
    LET current_count == Cardinality(DOMAIN ctx.pubkey2index)
        added == (current_count + 1)..Len(s.validators)
    IN  [ctx EXCEPT
            !.pubkey2index =
                [pubkey \in (DOMAIN ctx.pubkey2index)
                            \cup {s.validators[k].pubkey : k \in added} |->
                    IF \E k \in added : s.validators[k].pubkey = pubkey
                    THEN SetMax({k \in added : s.validators[k].pubkey = pubkey}) - 1
                    ELSE ctx.pubkey2index[pubkey]],
            !.index2pubkey =
                @ \o [k \in 1..(Len(s.validators) - current_count) |->
                         s.validators[current_count + k].pubkey]]

\* EpochsContext.rotate_epochs, on a run
rotate_epochs(t, s) ==
    LET next_epoch == t.ctx.next_shuffling.epoch + 1
        rotated ==
            [t EXCEPT
                !.ctx.previous_shuffling = t.ctx.current_shuffling,
                !.ctx.current_shuffling = t.ctx.next_shuffling,
                !.ctx.next_shuffling =
                    ShufflingEpoch(get_seed(s, next_epoch, DOMAIN_BEACON_ATTESTER),
                                   IndicesBounded(s), next_epoch)]
    IN  _reset_proposers(rotated, s)

\* EpochsContext.load_state on a new context
load_state(s) ==
    LET current_epoch == compute_epoch_at_slot(s.slot)
        previous_epoch == IF current_epoch = GENESIS_EPOCH THEN GENESIS_EPOCH
                          ELSE current_epoch - 1
        shuffling(epoch) ==
            ShufflingEpoch(get_seed(s, epoch, DOMAIN_BEACON_ATTESTER),
                           IndicesBounded(s), epoch)
        empty == [pubkey2index |-> <<>>, index2pubkey |-> <<>>,
                  proposers |-> <<>>,
                  previous_shuffling |-> shuffling(previous_epoch),
                  current_shuffling |-> shuffling(current_epoch),
                  next_shuffling |-> shuffling(current_epoch + 1)]
    IN  _reset_proposers([ok |-> TRUE, at |-> "", done |-> <<>>, state |-> s,
                          held |-> s, ctx |-> sync_pubkeys(empty, s)], s).ctx

\* EpochsContext._get_slot_comms; <<>> stands for the exception raised
\* for an epoch out of range
_get_slot_comms(ctx, slot) ==
    LET epoch == compute_epoch_at_slot(slot)
        epoch_slot == (slot % SLOTS_PER_EPOCH) + 1
    IN  IF epoch = ctx.previous_shuffling.epoch
        THEN ctx.previous_shuffling.committees[epoch_slot]
        ELSE IF epoch = ctx.current_shuffling.epoch
        THEN ctx.current_shuffling.committees[epoch_slot]
        ELSE IF epoch = ctx.next_shuffling.epoch
        THEN ctx.next_shuffling.committees[epoch_slot]
        ELSE <<>>

\* get_beacon_committee raises nothing for this slot and index
CommitteeKnown(ctx, slot, index) == index < Len(_get_slot_comms(ctx, slot))

get_beacon_committee(ctx, slot, index) == _get_slot_comms(ctx, slot)[index + 1]

\* the assertion of get_beacon_proposer
ProposerKnown(ctx, slot) ==
    compute_epoch_at_slot(slot) = ctx.current_shuffling.epoch

get_beacon_proposer(ctx, slot) == ctx.proposers[(slot % SLOTS_PER_EPOCH) + 1]

(***************************************************************************)
(* Epoch processing (process_epoch).  The flags of an AttesterStatus are   *)
(* the set of their names.                                                 *)
(***************************************************************************)
has_markers(flags, markers) == markers \subseteq flags

\* status_process_epoch from attestation k on; marks = the source, target
\* and head flag.  ok is FALSE when a lookup raises.
RECURSIVE status_process_epoch(_, _, _, _, _, _, _, _)
status_process_epoch(ctx, s, prev_epoch, statuses, attestations, epoch, marks, k) ==
    IF k > Len(attestations) THEN [ok |-> TRUE, statuses |-> statuses]
    ELSE
    LET att == attestations[k]
        att_slot == att.data.slot
        actual_target_block_root ==
            get_block_root_at_slot(s, compute_start_slot_at_epoch(epoch))
        att_voted_target_root == att.data.target.root = actual_target_block_root
        att_voted_head_root ==
            att.data.beacon_block_root = get_block_root_at_slot(s, att_slot)
        committee == get_beacon_committee(ctx, att_slot, att.data.index)
        participants ==
            {committee[i] : i \in {j \in 1..Len(committee) : att.aggregation_bits[j]}}
        earliest(status) ==
            IF epoch = prev_epoch
               /\ (status.proposer_index = -1
                   \/ status.inclusion_delay > att.inclusion_delay)
            THEN [status EXCEPT !.proposer_index = att.proposer_index,
                                !.inclusion_delay = att.inclusion_delay]
            ELSE status
        marked(status) ==
            [status EXCEPT !.flags =
                @ \cup {marks.source}
                  \cup (IF att_voted_target_root THEN {marks.target} ELSE {})
                  \cup (IF att_voted_target_root /\ att_voted_head_root
                        THEN {marks.head} ELSE {})]
    IN  IF ~BlockRootKnown(s, att_slot)
           \/ ~CommitteeKnown(ctx, att_slot, att.data.index)
        THEN [ok |-> FALSE, statuses |-> statuses]
        ELSE IF Len(att.aggregation_bits) < Len(committee)
        THEN [ok |-> FALSE, statuses |-> statuses]
        ELSE status_process_epoch(
                 ctx, s, prev_epoch,
                 [p \in 1..Len(statuses) |->
                     IF (p - 1) \in participants
                     THEN marked(earliest(statuses[p])) ELSE statuses[p]],
                 attestations, epoch, marks, k + 1)

prepare_epoch_process_state(ctx, s) ==
    LET current_epoch == ctx.current_shuffling.epoch
        prev_epoch == ctx.previous_shuffling.epoch
        slashings_epoch == current_epoch + (EPOCHS_PER_SLASHINGS_VECTOR \div 2)
        count == Len(s.validators)
        all == [k \in 1..count |-> k - 1]
        v(i) == s.validators[i + 1]
        status(i) ==
            [flags |->
                (IF v(i).slashed THEN {} ELSE {"UNSLASHED"})
                \cup (IF is_active_validator(v(i), prev_epoch)
                         \/ (v(i).slashed /\ prev_epoch + 1 < v(i).withdrawable_epoch)
                      THEN {"ELIGIBLE_ATTESTER"} ELSE {}),
             proposer_index |-> -1,
             inclusion_delay |-> 0,
             validator |-> v(i),
             active |-> is_active_validator(v(i), current_epoch)]
        statuses == [k \in 1..count |-> status(k - 1)]
        total_active_stake ==
            Sum([k \in 1..count |->
                    IF statuses[k].active THEN v(k - 1).effective_balance ELSE 0], 1)
        active_count == Cardinality({k \in 1..count : statuses[k].active})
        exit_queue_end ==
            SetMax({compute_activation_exit_epoch(current_epoch)}
                   \cup {v(i).exit_epoch : i \in
                            {j \in 0..(count - 1) : v(j).exit_epoch # FAR_FUTURE_EPOCH}})
        exit_queue_end_churn ==
            Cardinality({i \in 0..(count - 1) : v(i).exit_epoch = exit_queue_end})
        churn_limit == get_churn_limit(active_count)
        first == IF s.slot > 0
                 THEN IF BlockRootKnown(s, compute_start_slot_at_epoch(prev_epoch))
                      THEN status_process_epoch(
                               ctx, s, prev_epoch, statuses,
                               s.previous_epoch_attestations, prev_epoch,
                               [source |-> "PREV_SOURCE_ATTESTER",
                                target |-> "PREV_TARGET_ATTESTER",
                                head |-> "PREV_HEAD_ATTESTER"], 1)
                      ELSE [ok |-> FALSE, statuses |-> statuses]
                 ELSE [ok |-> TRUE, statuses |-> statuses]
        second == IF first.ok /\ compute_start_slot_at_epoch(current_epoch) < s.slot
                  THEN IF BlockRootKnown(s, compute_start_slot_at_epoch(current_epoch))
                       THEN status_process_epoch(
                                ctx, s, prev_epoch, first.statuses,
                                s.current_epoch_attestations, current_epoch,
                                [source |-> "CURR_SOURCE_ATTESTER",
                                 target |-> "CURR_TARGET_ATTESTER",
                                 head |-> "CURR_HEAD_ATTESTER"], 1)
                       ELSE [ok |-> FALSE, statuses |-> statuses]
                  ELSE first
        final == second.statuses
        stake(markers) ==
            Max(Sum([k \in 1..count |->
                        IF has_markers(final[k].flags, markers)
                        THEN final[k].validator.effective_balance ELSE 0], 1),
                EFFECTIVE_BALANCE_INCREMENT)
    IN  [ok |-> second.ok,
         current_epoch |-> current_epoch,
         prev_epoch |-> prev_epoch,
         statuses |-> final,
         total_active_stake |->
             Max(total_active_stake, EFFECTIVE_BALANCE_INCREMENT),
         prev_epoch_unslashed_stake |->
             [source_stake |-> stake({"PREV_SOURCE_ATTESTER", "UNSLASHED"}),
              target_stake |-> stake({"PREV_SOURCE_ATTESTER", "UNSLASHED",
                                      "PREV_TARGET_ATTESTER"}),
              head_stake |-> stake({"PREV_SOURCE_ATTESTER", "UNSLASHED",
                                    "PREV_TARGET_ATTESTER", "PREV_HEAD_ATTESTER"})],
         curr_epoch_unslashed_target_stake |->
             stake({"CURR_TARGET_ATTESTER", "UNSLASHED"}),
         active_validators |-> active_count,
         indices_to_slash |->
             SelectSeq(all, LAMBDA i : v(i).slashed
                                       /\ slashings_epoch = v(i).withdrawable_epoch),
         indices_to_set_activation_eligibility |->
             SelectSeq(all, LAMBDA i :
                 /\ v(i).activation_eligibility_epoch = FAR_FUTURE_EPOCH
                 /\ v(i).effective_balance = MAX_EFFECTIVE_BALANCE),
         indices_to_maybe_activate |->
             SortSeq(SelectSeq(all, LAMBDA i :
                         /\ v(i).activation_epoch = FAR_FUTURE_EPOCH
                         /\ v(i).activation_eligibility_epoch <= current_epoch),
                     LAMBDA i, j :
                         \/ v(i).activation_eligibility_epoch
                                < v(j).activation_eligibility_epoch
                         \/ /\ v(i).activation_eligibility_epoch
                                = v(j).activation_eligibility_epoch
                            /\ i < j),
         indices_to_eject |->
             SelectSeq(all, LAMBDA i :
                 /\ statuses[i + 1].active
                 /\ v(i).effective_balance <= EJECTION_BALANCE
                 /\ v(i).exit_epoch = FAR_FUTURE_EPOCH),
         exit_queue_end |->
             IF exit_queue_end_churn >= churn_limit
             THEN exit_queue_end + 1 ELSE exit_queue_end,
         exit_queue_end_churn |->
             IF exit_queue_end_churn >= churn_limit THEN 0 ELSE exit_queue_end_churn,
         churn_limit |-> churn_limit]

\* variant: an epoch is justified by more than two thirds of the stake only
JustificationBitsAboveTwoThirds(process, bits) ==
    [k \in DOMAIN bits |->
        IF k = 0
        THEN process.curr_epoch_unslashed_target_stake * 3
                 > process.total_active_stake * 2
        ELSE IF k = 1
        THEN \/ process.prev_epoch_unslashed_stake.target_stake * 3
                    > process.total_active_stake * 2
             \/ bits[0]
        ELSE bits[k - 1]]

\* the list of bits shifted by one place, the first two places then set by
\* what the epoch justified
JustificationBits(process, bits) ==
    [k \in DOMAIN bits |->
        IF k = 0
        THEN process.curr_epoch_unslashed_target_stake * 3
                 >= process.total_active_stake * 2
        ELSE IF k = 1
        THEN \/ process.prev_epoch_unslashed_stake.target_stake * 3
                    >= process.total_active_stake * 2
             \/ bits[0]
        ELSE bits[k - 1]]

SetJustificationBitsButLast(s, bits) ==
    [s EXCEPT !.justification_bits =
                  [k \in 0..(Cardinality(DOMAIN bits) - 2) |-> bits[k]]]

SetJustificationBits(s, bits) ==
    [s EXCEPT !.justification_bits = bits]

FinalizedOrDefault(s, bits, old_previous_justified_checkpoint, old_current_justified_checkpoint, current_epoch) ==
    IF bits[0] /\ bits[1]
       /\ old_current_justified_checkpoint.epoch + 1 = current_epoch
    THEN old_current_justified_checkpoint
    ELSE IF bits[0] /\ bits[1] /\ bits[2]
            /\ old_current_justified_checkpoint.epoch + 2 = current_epoch
    THEN old_current_justified_checkpoint
    ELSE IF bits[1] /\ bits[2]
            /\ old_previous_justified_checkpoint.epoch + 2 = current_epoch
    THEN old_previous_justified_checkpoint
    ELSE IF bits[1] /\ bits[2] /\ bits[3]
            /\ old_previous_justified_checkpoint.epoch + 3 = current_epoch
    THEN old_previous_justified_checkpoint
    ELSE [epoch |-> GENESIS_EPOCH, root |-> 0]

\* the finalized checkpoint after the four rules, the last that applies
\* winning
FinalizedCheckpoint(s, bits, old_previous_justified_checkpoint, old_current_justified_checkpoint, current_epoch) ==
    IF bits[0] /\ bits[1]
       /\ old_current_justified_checkpoint.epoch + 1 = current_epoch
    THEN old_current_justified_checkpoint
    ELSE IF bits[0] /\ bits[1] /\ bits[2]
            /\ old_current_justified_checkpoint.epoch + 2 = current_epoch
    THEN old_current_justified_checkpoint
    ELSE IF bits[1] /\ bits[2]
            /\ old_previous_justified_checkpoint.epoch + 2 = current_epoch
    THEN old_previous_justified_checkpoint
    ELSE IF bits[1] /\ bits[2] /\ bits[3]
            /\ old_previous_justified_checkpoint.epoch + 3 = current_epoch
    THEN old_previous_justified_checkpoint
    ELSE s.finalized_checkpoint

process_justification_and_finalization(process, s) ==
    LET previous_epoch == process.prev_epoch
        current_epoch == process.current_epoch
        previous_justified ==
            process.prev_epoch_unslashed_stake.target_stake * 3
                >= process.total_active_stake * 2
        current_justified ==
            process.curr_epoch_unslashed_target_stake * 3
                >= process.total_active_stake * 2
        checkpoint(epoch) ==
            [epoch |-> epoch,
             root |-> get_block_root_at_slot(s, compute_start_slot_at_epoch(epoch))]
    IN  IF current_epoch <= GENESIS_EPOCH + 1 THEN [ok |-> TRUE, state |-> s]
        ELSE IF (previous_justified
                 /\ ~BlockRootKnown(s, compute_start_slot_at_epoch(previous_epoch)))
                \/ (current_justified
                    /\ ~BlockRootKnown(s, compute_start_slot_at_epoch(current_epoch)))
        THEN [ok |-> FALSE, state |-> s]
        ELSE IF Cardinality(DOMAIN s.justification_bits) # 4
        THEN [ok |-> FALSE, state |-> s]
        ELSE [ok |-> TRUE,
              state |->
                [SetJustificationBits(
                     s, JustificationBits(process, s.justification_bits)) EXCEPT
                   !.previous_justified_checkpoint = s.current_justified_checkpoint,
                   !.current_justified_checkpoint =
                       IF current_justified THEN checkpoint(current_epoch)
                       ELSE IF previous_justified THEN checkpoint(previous_epoch)
                       ELSE @,
                   !.finalized_checkpoint =
                       FinalizedCheckpoint(
                           s, JustificationBits(process, s.justification_bits),
                           s.previous_justified_checkpoint,
                           s.current_justified_checkpoint, current_epoch)]]

\* the five Deltas of get_attestation_rewards_and_penalties, per validator
get_attestation_rewards_and_penalties(process, s) ==
    LET count == Len(process.statuses)
        increment == EFFECTIVE_BALANCE_INCREMENT
        total == Max(process.total_active_stake, increment)
        balance_sq_root == integer_squareroot(total)
        finality_delay == process.prev_epoch - s.finalized_checkpoint.epoch
        is_inactivity_leak == finality_delay > MIN_EPOCHS_TO_INACTIVITY_PENALTY
        total_balance == total \div increment
        prev_epoch_source_stake ==
            Max(process.prev_epoch_unslashed_stake.source_stake, increment)
                \div increment
        prev_epoch_target_stake ==
            Max(process.prev_epoch_unslashed_stake.target_stake, increment)
                \div increment
        prev_epoch_head_stake ==
            Max(process.prev_epoch_unslashed_stake.head_stake, increment)
                \div increment
        flags(i) == process.statuses[i].flags
        eff_balance(i) == process.statuses[i].validator.effective_balance
        base_reward(i) ==
            ((eff_balance(i) * BASE_REWARD_FACTOR) \div balance_sq_root)
                \div BASE_REWARDS_PER_EPOCH
        proposer_reward(i) == base_reward(i) \div PROPOSER_REWARD_QUOTIENT
        included(i) == has_markers(flags(i), {"PREV_SOURCE_ATTESTER", "UNSLASHED"})
        eligible(i) == "ELIGIBLE_ATTESTER" \in flags(i)
        reward(i, marker, stake) ==
            IF eligible(i) /\ has_markers(flags(i), {marker, "UNSLASHED"})
            THEN IF is_inactivity_leak THEN base_reward(i)
                 ELSE (base_reward(i) * stake) \div total_balance
            ELSE 0
        penalty(i, marker) ==
            IF eligible(i) /\ ~has_markers(flags(i), {marker, "UNSLASHED"})
            THEN base_reward(i) ELSE 0
    IN  [source |->
            [rewards |-> [i \in 1..count |->
                             reward(i, "PREV_SOURCE_ATTESTER", prev_epoch_source_stake)],
             penalties |-> [i \in 1..count |-> penalty(i, "PREV_SOURCE_ATTESTER")]],
         target |->
            [rewards |-> [i \in 1..count |->
                             reward(i, "PREV_TARGET_ATTESTER", prev_epoch_target_stake)],
             penalties |-> [i \in 1..count |-> penalty(i, "PREV_TARGET_ATTESTER")]],
         head |->
            [rewards |-> [i \in 1..count |->
                             reward(i, "PREV_HEAD_ATTESTER", prev_epoch_head_stake)],
             penalties |-> [i \in 1..count |-> penalty(i, "PREV_HEAD_ATTESTER")]],
         inclusion_delay |->
            [rewards |->
                [i \in 1..count |->
                    Sum([j \in 1..count |->
                            IF included(j)
                               /\ process.statuses[j].proposer_index = i - 1
                            THEN proposer_reward(j) ELSE 0], 1)
                    + (IF included(i)
                       THEN (base_reward(i) - proposer_reward(i))
                                \div process.statuses[i].inclusion_delay
                       ELSE 0)],
             penalties |->
                [i \in 1..count |->
                    IF eligible(i) /\ is_inactivity_leak
                    THEN (base_reward(i) * BASE_REWARDS_PER_EPOCH)
                         - proposer_reward(i)
                         + (IF ~has_markers(flags(i),
                                            {"PREV_TARGET_ATTESTER", "UNSLASHED"})
                            THEN (eff_balance(i) * finality_delay)
                                     \div INACTIVITY_PENALTY_QUOTIENT
                            ELSE 0)
                    ELSE 0]],
         inactivity |->
            [rewards |-> [i \in 1..count |-> 0],
             penalties |-> [i \in 1..count |-> 0]]]

add_rewards(balances, deltas) ==
    [i \in 1..Len(balances) |-> balances[i] + deltas.rewards[i]]

add_penalties(balances, deltas) ==
    [i \in 1..Len(balances) |->
        IF deltas.penalties[i] > balances[i] THEN 0
        ELSE balances[i] - deltas.penalties[i]]

\* new_balances after the five add_rewards and the five add_penalties
AddDeltas(balances, res) ==
    add_penalties(add_penalties(add_penalties(add_penalties(add_penalties(
        add_rewards(add_rewards(add_rewards(add_rewards(add_rewards(
            balances, res.source), res.target), res.head),
            res.inclusion_delay), res.inactivity),
        res.source), res.target), res.head),
        res.inclusion_delay), res.inactivity)

\* the five lists of deltas in the order they are applied
Stages(res) ==
    <<res.source, res.target, res.head, res.inclusion_delay, res.inactivity>>

RewardsAdded(balances, res) ==
    add_rewards(add_rewards(add_rewards(add_rewards(add_rewards(
        balances, res.source), res.target), res.head),
        res.inclusion_delay), res.inactivity)

\* the part of the penalties of stage k and later that exceeds the balance
\* each finds
RECURSIVE Unpaid(_, _, _)
Unpaid(balances, stages, k) ==
    IF k > Len(stages) THEN 0
    ELSE Sum([i \in 1..Len(balances) |->
                 IF stages[k].penalties[i] > balances[i]
                 THEN stages[k].penalties[i] - balances[i] ELSE 0], 1)
         + Unpaid([i \in 1..Len(balances) |->
                      IF stages[k].penalties[i] > balances[i] THEN 0
                      ELSE balances[i] - stages[k].penalties[i]],
                  stages, k + 1)

\* state.set("balances", new_balances), with the history of the deltas
SetBalances(s, res) ==
    Charged(
        Credited([s EXCEPT !.balances = AddDeltas(s.balances, res)],
                 Sum([k \in 1..5 |-> Sum(Stages(res)[k].rewards, 1)], 1)),
        Sum([k \in 1..5 |-> Sum(Stages(res)[k].penalties, 1)], 1),
        Unpaid(RewardsAdded(s.balances, res), Stages(res), 1))

process_rewards_and_penalties(process, s) ==
    IF process.current_epoch = GENESIS_EPOCH THEN s
    ELSE SetBalances(s, get_attestation_rewards_and_penalties(process, s))

\* variant: the queue end moves on only after one more than the limit
RECURSIVE ProcessEjectionsOverLimit(_, _, _, _, _)
ProcessEjectionsOverLimit(process, s, exit_end, end_churn, k) ==
    IF k > Len(process.indices_to_eject) THEN s
    ELSE LET index == process.indices_to_eject[k]
             rolls == end_churn + 1 > process.churn_limit
         IN  ProcessEjectionsOverLimit(
                 process,
                 [s EXCEPT !.validators[index + 1] =
                     [@ EXCEPT !.exit_epoch = exit_end,
                               !.withdrawable_epoch =
                                   exit_end + MIN_VALIDATOR_WITHDRAWABILITY_DELAY]],
                 IF rolls THEN exit_end + 1 ELSE exit_end,
                 IF rolls THEN 0 ELSE end_churn + 1,
                 k + 1)

\* the ejection loop of process_registry_updates from entry k of
\* indices_to_eject on
RECURSIVE ProcessEjections(_, _, _, _, _)
ProcessEjections(process, s, exit_end, end_churn, k) ==
    IF k > Len(process.indices_to_eject) THEN s
    ELSE LET index == process.indices_to_eject[k]
             rolls == end_churn + 1 >= process.churn_limit
         IN  ProcessEjections(
                 process,
                 [s EXCEPT !.validators[index + 1] =
                     [@ EXCEPT !.exit_epoch = exit_end,
                               !.withdrawable_epoch =
                                   exit_end + MIN_VALIDATOR_WITHDRAWABILITY_DELAY]],
                 IF rolls THEN exit_end + 1 ELSE exit_end,
                 IF rolls THEN 0 ELSE end_churn + 1,
                 k + 1)

\* variant: the whole of indices_to_maybe_activate is gone through
process_registry_updates_whole_queue(ctx, process, s) ==
    LET ejected == ProcessEjections(process, s, process.exit_queue_end,
                                    process.exit_queue_end_churn, 1)
        to_set == process.indices_to_set_activation_eligibility
        eligible ==
            [ejected EXCEPT !.validators =
                [k \in 1..Len(ejected.validators) |->
                    IF \E m \in 1..Len(to_set) : to_set[m] = k - 1
                    THEN [ejected.validators[k] EXCEPT
                             !.activation_eligibility_epoch =
                                 ctx.current_shuffling.epoch + 1]
                    ELSE ejected.validators[k]]]
        finality_epoch == eligible.finalized_checkpoint.epoch
        queue == process.indices_to_maybe_activate
        late(m) ==
            process.statuses[queue[m] + 1].validator.activation_eligibility_epoch
                > finality_epoch
        \* the entries before the `break`
        dequeued == {queue[m] : m \in {j \in 1..Len(queue) :
                                          \A i \in 1..j : ~late(i)}}
    IN  [eligible EXCEPT !.validators =
            [k \in 1..Len(eligible.validators) |->
                IF (k - 1) \in dequeued
                THEN [eligible.validators[k] EXCEPT
                         !.activation_epoch =
                             compute_activation_exit_epoch(process.current_epoch)]
                ELSE eligible.validators[k]]]

process_registry_updates(ctx, process, s) ==
    LET ejected == ProcessEjections(process, s, process.exit_queue_end,
                                    process.exit_queue_end_churn, 1)
        to_set == process.indices_to_set_activation_eligibility
        eligible ==
            [ejected EXCEPT !.validators =
                [k \in 1..Len(ejected.validators) |->
                    IF \E m \in 1..Len(to_set) : to_set[m] = k - 1
                    THEN [ejected.validators[k] EXCEPT
                             !.activation_eligibility_epoch =
                                 ctx.current_shuffling.epoch + 1]
                    ELSE ejected.validators[k]]]
        finality_epoch == eligible.finalized_checkpoint.epoch
        queue == SubSeq(process.indices_to_maybe_activate, 1,
                        Min(process.churn_limit,
                            Len(process.indices_to_maybe_activate)))
        late(m) ==
            process.statuses[queue[m] + 1].validator.activation_eligibility_epoch
                > finality_epoch
        \* the entries before the `break`
        dequeued == {queue[m] : m \in {j \in 1..Len(queue) :
                                          \A i \in 1..j : ~late(i)}}
    IN  [eligible EXCEPT !.validators =
            [k \in 1..Len(eligible.validators) |->
                IF (k - 1) \in dequeued
                THEN [eligible.validators[k] EXCEPT
                         !.activation_epoch =
                             compute_activation_exit_epoch(process.current_epoch)]
                ELSE eligible.validators[k]]]

\* the loop of process_slashings from entry k of indices_to_slash on
RECURSIVE process_slashings_from(_, _, _, _)
process_slashings_from(process, s, slashings_scale, k) ==
    IF k > Len(process.indices_to_slash) THEN s
    ELSE LET index == process.indices_to_slash[k]
             increment == EFFECTIVE_BALANCE_INCREMENT
             effective_balance == process.statuses[index + 1].validator.effective_balance
             penalty_numerator == (effective_balance \div increment) * slashings_scale
             penalty == (penalty_numerator \div process.total_active_stake) * increment
         IN  process_slashings_from(process, decrease_balance(s, index, penalty),
                                    slashings_scale, k + 1)

RECURSIVE process_slashings_from_unclipped(_, _, _, _)
process_slashings_from_unclipped(process, s, slashings_scale, k) ==
    IF k > Len(process.indices_to_slash) THEN s
    ELSE LET index == process.indices_to_slash[k]
             increment == EFFECTIVE_BALANCE_INCREMENT
             effective_balance == process.statuses[index + 1].validator.effective_balance
             penalty_numerator == (effective_balance \div increment) * slashings_scale
             penalty == (penalty_numerator \div process.total_active_stake) * increment
         IN  process_slashings_from_unclipped(
                 process,
                 Charged([s EXCEPT !.balances[index + 1] = @ - penalty], penalty,
                         IF penalty > s.balances[index + 1]
                         THEN penalty - s.balances[index + 1] ELSE 0),
                 slashings_scale, k + 1)

process_slashings_unclipped(process, s) ==
    process_slashings_from_unclipped(
        process, s,
        Min(Sum(Vec(s.slashings, EPOCHS_PER_SLASHINGS_VECTOR), 1) * 3,
            process.total_active_stake),
        1)

process_slashings(process, s) ==
    process_slashings_from(
        process, s,
        Min(Sum(Vec(s.slashings, EPOCHS_PER_SLASHINGS_VECTOR), 1) * 3,
            process.total_active_stake),
        1)

\* variant: the effective balance follows the balance without thresholds
process_final_updates_no_hysteresis(process, s) ==
    LET current_epoch == process.current_epoch
        next_epoch == current_epoch + 1
        new_effective_balance(k) ==
            LET balance == s.balances[k]
                effective_balance == process.statuses[k].validator.effective_balance
            IN  IF balance < effective_balance \/ effective_balance < balance
                THEN Min(balance - (balance % EFFECTIVE_BALANCE_INCREMENT),
                         MAX_EFFECTIVE_BALANCE)
                ELSE s.validators[k].effective_balance
    IN  [s EXCEPT
            !.eth1_data_votes =
                IF next_epoch % EPOCHS_PER_ETH1_VOTING_PERIOD = 0 THEN <<>> ELSE @,
            !.validators =
                [k \in 1..Len(s.validators) |->
                    IF k <= Min(Len(process.statuses), Len(s.balances))
                    THEN [s.validators[k] EXCEPT
                             !.effective_balance = new_effective_balance(k)]
                    ELSE s.validators[k]],
            !.slashings[next_epoch % EPOCHS_PER_SLASHINGS_VECTOR] = 0,
            !.randao_mixes[next_epoch % EPOCHS_PER_HISTORICAL_VECTOR] =
                get_randao_mix(s, current_epoch),
            !.previous_epoch_attestations = s.current_epoch_attestations,
            !.current_epoch_attestations = <<>>]

process_final_updates(process, s) ==
    LET current_epoch == process.current_epoch
        next_epoch == current_epoch + 1
        new_effective_balance(k) ==
            LET balance == s.balances[k]
                effective_balance == process.statuses[k].validator.effective_balance
            IN  IF balance + DOWNWARD_THRESHOLD < effective_balance
                   \/ effective_balance + UPWARD_THRESHOLD < balance
                THEN Min(balance - (balance % EFFECTIVE_BALANCE_INCREMENT),
                         MAX_EFFECTIVE_BALANCE)
                ELSE s.validators[k].effective_balance
    IN  [s EXCEPT
            !.eth1_data_votes =
                IF next_epoch % EPOCHS_PER_ETH1_VOTING_PERIOD = 0 THEN <<>> ELSE @,
            !.validators =
                [k \in 1..Len(s.validators) |->
                    IF k <= Min(Len(process.statuses), Len(s.balances))
                    THEN [s.validators[k] EXCEPT
                             !.effective_balance = new_effective_balance(k)]
                    ELSE s.validators[k]],
            !.slashings[next_epoch % EPOCHS_PER_SLASHINGS_VECTOR] = 0,
            !.randao_mixes[next_epoch % EPOCHS_PER_HISTORICAL_VECTOR] =
                get_randao_mix(s, current_epoch),
            !.previous_epoch_attestations = s.current_epoch_attestations,
            !.current_epoch_attestations = <<>>]

\* process_epoch, on a run
\* process_epoch from process_rewards_and_penalties on
AfterJustification(t, process, justified) ==
    IF ~justified.ok THEN Fail(t, "process_justification_and_finalization")
    ELSE [t EXCEPT
             !.state =
                 process_final_updates(
                     process,
                     process_slashings(
                         process,
                         process_registry_updates(
                             t.ctx, process,
                             process_rewards_and_penalties(process,
                                                           justified.state)))),
             !.done = Append(@, "process_epoch")]

\* process_epoch with the EpochProcess prepare_epoch_process_state gave
WithEpochProcess(t, process) ==
    IF ~process.ok THEN Fail(t, "prepare_epoch_process_state")
    ELSE AfterJustification(
             t, process, process_justification_and_finalization(process, t.state))

\* process_epoch, on a run
process_epoch(t) ==
    WithEpochProcess(t, prepare_epoch_process_state(t.ctx, t.state))

(***************************************************************************)
(* Slot and block processing, on a run                                     *)
(***************************************************************************)
\* _process_slot: the state root and the block root of the slot are cached
_process_slot(t) ==
    LET s == t.state
        previous_state_root == hash_tree_root_state(s)
        header == IF s.latest_block_header.state_root = 0
                  THEN [s.latest_block_header EXCEPT !.state_root = previous_state_root]
                  ELSE s.latest_block_header
    IN  [t EXCEPT
            !.state.state_roots[s.slot % SLOTS_PER_HISTORICAL_ROOT] =
                previous_state_root,
            !.state.latest_block_header = header,
            !.state.block_roots[s.slot % SLOTS_PER_HISTORICAL_ROOT] =
                Root(HeaderFields(header))]

\* state.set("slot", state.slot + 1) on a run
SetNextSlot(t) ==
    IF t.ok THEN [t EXCEPT !.state.slot = @ + 1] ELSE t

\* epochs_ctx.rotate_epochs(state), called with the state of the next slot
RotateAtNextSlot(t) ==
    IF ~t.ok THEN t
    ELSE rotate_epochs(t, [t.state EXCEPT !.slot = @ + 1])

\* variant: the epoch is processed on leaving the first slot of an epoch
EndSlotAtEpochStart(cached) ==
    IF cached.state.slot % SLOTS_PER_EPOCH # 0 THEN SetNextSlot(cached)
    ELSE SetNextSlot(RotateAtNextSlot(process_epoch(cached)))

\* one pass of the `while state.slot < slot` loop after _process_slot
EndSlot(cached) ==
    IF (cached.state.slot + 1) % SLOTS_PER_EPOCH # 0 THEN SetNextSlot(cached)
    ELSE SetNextSlot(RotateAtNextSlot(process_epoch(cached)))

\* the `while state.slot < slot` loop of process_slots
RECURSIVE process_slots_loop(_, _)
process_slots_loop(t, slot) ==
    IF ~t.ok \/ ~(t.state.slot < slot) THEN t
    ELSE process_slots_loop(EndSlot(_process_slot(t)), slot)

process_slots_unasserted(t, slot) == process_slots_loop(t, slot)

process_slots(t, slot) ==
    IF ~(t.state.slot < slot) THEN Fail(t, "process_slots: state.slot < slot")
    ELSE process_slots_loop(t, slot)

\* variant: the header is written into the state object passed in
CacheHeaderInPlace(t, block) ==
    LET header == [slot |-> block.slot,
                   proposer_index |-> block.proposer_index,
                   parent_root |-> block.parent_root,
                   state_root |-> 0,
                   body_root |-> hash_tree_root_body(block.body)]
    IN  [t EXCEPT !.state.latest_block_header = header,
                  !.held.latest_block_header = header,
                  !.done = Append(@, "latest_block_header")]

\* "Cache current block as the new latest block": state.set gives a new
\* state and leaves the one it is called on as it was
CacheHeader(t, block) ==
    LET header == [slot |-> block.slot,
                   proposer_index |-> block.proposer_index,
                   parent_root |-> block.parent_root,
                   state_root |-> 0,
                   body_root |-> hash_tree_root_body(block.body)]
    IN  [t EXCEPT !.state.latest_block_header = header,
                  !.done = Append(@, "latest_block_header")]

process_block_header(t, block) ==
    LET s == t.state
        cached == CacheHeader(t, block)
    IN  IF block.slot # s.slot THEN Fail(t, "block.slot == state.slot")
        ELSE IF ~(block.slot > s.latest_block_header.slot)
        THEN Fail(t, "block.slot > latest_block_header.slot")
        ELSE IF ~ProposerKnown(t.ctx, s.slot) THEN Fail(t, "get_beacon_proposer")
        ELSE IF block.proposer_index # get_beacon_proposer(t.ctx, s.slot)
        THEN Fail(t, "block.proposer_index == proposer_index")
        ELSE IF block.parent_root # Root(HeaderFields(s.latest_block_header))
        THEN Fail(t, "block.parent_root")
        ELSE IF s.validators[block.proposer_index + 1].slashed
        THEN Fail(cached, "not proposer.slashed")
        ELSE cached

process_randao(t, body) ==
    IF ~t.ok THEN t ELSE
    LET s == t.state
        epoch == t.ctx.current_shuffling.epoch
        proposer_index == get_beacon_proposer(t.ctx, s.slot)
        proposer_pubkey == t.ctx.index2pubkey[proposer_index + 1]
        signing_root == compute_signing_root(<<epoch>>, DOMAIN_RANDAO)
        mix == xor(get_randao_mix(s, epoch),
                   hash_eth2(body.randao_reveal.signers \o body.randao_reveal.message))
    IN  IF ~ProposerKnown(t.ctx, s.slot) THEN Fail(t, "get_beacon_proposer")
        ELSE IF ~bls_Verify(proposer_pubkey, signing_root, body.randao_reveal)
        THEN Fail(t, "randao_reveal")
        ELSE [t EXCEPT
                 !.state.randao_mixes[epoch % EPOCHS_PER_HISTORICAL_VECTOR] = mix,
                 !.done = Append(@, "randao_mixes")]

process_eth1_data(t, body) ==
    IF ~t.ok THEN t ELSE
    LET new_eth1_data == body.eth1_data
        eth1_data_votes == Append(t.state.eth1_data_votes, new_eth1_data)
        votes == Cardinality({k \in 1..Len(eth1_data_votes) :
                                 eth1_data_votes[k] = new_eth1_data})
    IN  [t EXCEPT
            !.state.eth1_data_votes = eth1_data_votes,
            !.state.eth1_data =
                IF @ # new_eth1_data /\ votes * 2 > SLOTS_PER_ETH1_VOTING_PERIOD
                THEN new_eth1_data ELSE @,
            !.done = Append(@, "eth1_data_votes")]

is_slashable_validator(validator, epoch) ==
    /\ ~validator.slashed
    /\ validator.activation_epoch <= epoch
    /\ epoch < validator.withdrawable_epoch

\* variant: two votes for the same target epoch are slashable even when equal
is_slashable_attestation_data_same_target(data_1, data_2) ==
    \/ data_1.target.epoch = data_2.target.epoch
    \/ (data_1.source.epoch < data_2.source.epoch
        /\ data_2.target.epoch < data_1.target.epoch)

is_slashable_attestation_data(data_1, data_2) ==
    \/ (data_1 # data_2 /\ data_1.target.epoch = data_2.target.epoch)
    \/ (data_1.source.epoch < data_2.source.epoch
        /\ data_2.target.epoch < data_1.target.epoch)

initiate_validator_exit_swapped(ctx, s, index) ==
    LET current_epoch == ctx.current_shuffling.epoch
        exit_epochs == {s.validators[k].exit_epoch : k \in
                           {j \in 1..Len(s.validators) :
                               s.validators[j].exit_epoch # FAR_FUTURE_EPOCH}}
        exit_queue_epoch ==
            SetMax(exit_epochs \cup {compute_activation_exit_epoch(current_epoch)})
        exit_queue_churn ==
            Cardinality({k \in 1..Len(s.validators) :
                            s.validators[k].exit_epoch = exit_queue_epoch})
        exit_epoch ==
            IF exit_queue_churn
                   >= get_churn_limit(Len(ctx.current_shuffling.active_indices))
            THEN exit_queue_epoch + 1 ELSE exit_queue_epoch
    IN  IF s.validators[index + 1].exit_epoch # FAR_FUTURE_EPOCH THEN s
        ELSE [s EXCEPT !.validators[index + 1] =
                 [@ EXCEPT !.withdrawable_epoch = exit_epoch,
                           !.exit_epoch =
                               exit_epoch + MIN_VALIDATOR_WITHDRAWABILITY_DELAY]]

\* variant: the queue epoch moves on only when it holds more than the limit
initiate_validator_exit_over_limit(ctx, s, index) ==
    LET current_epoch == ctx.current_shuffling.epoch
        exit_epochs == {s.validators[k].exit_epoch : k \in
                           {j \in 1..Len(s.validators) :
                               s.validators[j].exit_epoch # FAR_FUTURE_EPOCH}}
        exit_queue_epoch ==
            SetMax(exit_epochs \cup {compute_activation_exit_epoch(current_epoch)})
        exit_queue_churn ==
            Cardinality({k \in 1..Len(s.validators) :
                            s.validators[k].exit_epoch = exit_queue_epoch})
        exit_epoch ==
            IF exit_queue_churn
                   > get_churn_limit(Len(ctx.current_shuffling.active_indices))
            THEN exit_queue_epoch + 1 ELSE exit_queue_epoch
    IN  IF s.validators[index + 1].exit_epoch # FAR_FUTURE_EPOCH THEN s
        ELSE [s EXCEPT !.validators[index + 1] =
                 [@ EXCEPT !.exit_epoch = exit_epoch,
                           !.withdrawable_epoch =
                               exit_epoch + MIN_VALIDATOR_WITHDRAWABILITY_DELAY]]

initiate_validator_exit(ctx, s, index) ==
    LET current_epoch == ctx.current_shuffling.epoch
        exit_epochs == {s.validators[k].exit_epoch : k \in
                           {j \in 1..Len(s.validators) :
                               s.validators[j].exit_epoch # FAR_FUTURE_EPOCH}}
        exit_queue_epoch ==
            SetMax(exit_epochs \cup {compute_activation_exit_epoch(current_epoch)})
        exit_queue_churn ==
            Cardinality({k \in 1..Len(s.validators) :
                            s.validators[k].exit_epoch = exit_queue_epoch})
        exit_epoch ==
            IF exit_queue_churn
                   >= get_churn_limit(Len(ctx.current_shuffling.active_indices))
            THEN exit_queue_epoch + 1 ELSE exit_queue_epoch
    IN  IF s.validators[index + 1].exit_epoch # FAR_FUTURE_EPOCH THEN s
        ELSE [s EXCEPT !.validators[index + 1] =
                 [@ EXCEPT !.exit_epoch = exit_epoch,
                           !.withdrawable_epoch =
                               exit_epoch + MIN_VALIDATOR_WITHDRAWABILITY_DELAY]]

slash_validator_proposer_share(t, slashed_index) ==
    LET epoch == t.ctx.current_shuffling.epoch
        exited == initiate_validator_exit(t.ctx, t.state, slashed_index)
        new_validator ==
            [exited.validators[slashed_index + 1] EXCEPT
                !.slashed = TRUE,
                !.withdrawable_epoch = Max(@, epoch + EPOCHS_PER_SLASHINGS_VECTOR)]
        slashed ==
            decrease_balance(
                [exited EXCEPT
                    !.slashings[epoch % EPOCHS_PER_SLASHINGS_VECTOR] =
                        @ + new_validator.effective_balance,
                    !.validators[slashed_index + 1] = new_validator],
                slashed_index,
                new_validator.effective_balance \div MIN_SLASHING_PENALTY_QUOTIENT)
        proposer_index == get_beacon_proposer(t.ctx, slashed.slot)
        proposer_reward ==
            (new_validator.effective_balance \div WHISTLEBLOWER_REWARD_QUOTIENT)
                \div PROPOSER_REWARD_QUOTIENT
    IN  IF ~ProposerKnown(t.ctx, slashed.slot) THEN Fail(t, "get_beacon_proposer")
        ELSE [t EXCEPT
                 !.state =
                     increase_balance(slashed, proposer_index, proposer_reward),
                 !.done = Append(@, "slash_validator")]

\* slash_validator without a whistleblower, on a run
slash_validator(t, slashed_index) ==
    LET epoch == t.ctx.current_shuffling.epoch
        exited == initiate_validator_exit(t.ctx, t.state, slashed_index)
        new_validator ==
            [exited.validators[slashed_index + 1] EXCEPT
                !.slashed = TRUE,
                !.withdrawable_epoch = Max(@, epoch + EPOCHS_PER_SLASHINGS_VECTOR)]
        slashed ==
            decrease_balance(
                [exited EXCEPT
                    !.slashings[epoch % EPOCHS_PER_SLASHINGS_VECTOR] =
                        @ + new_validator.effective_balance,
                    !.validators[slashed_index + 1] = new_validator],
                slashed_index,
                new_validator.effective_balance \div MIN_SLASHING_PENALTY_QUOTIENT)
        proposer_index == get_beacon_proposer(t.ctx, slashed.slot)
        whistleblower_reward ==
            new_validator.effective_balance \div WHISTLEBLOWER_REWARD_QUOTIENT
        proposer_reward == whistleblower_reward \div PROPOSER_REWARD_QUOTIENT
    IN  IF ~ProposerKnown(t.ctx, slashed.slot) THEN Fail(t, "get_beacon_proposer")
        ELSE [t EXCEPT
                 !.state =
                     increase_balance(
                         increase_balance(slashed, proposer_index, proposer_reward),
                         proposer_index, whistleblower_reward - proposer_reward),
                 !.done = Append(@, "slash_validator")]

process_proposer_slashing(t, proposer_slashing) ==
    LET header_1 == proposer_slashing.signed_header_1.message
        header_2 == proposer_slashing.signed_header_2.message
        proposer == t.state.validators[header_1.proposer_index + 1]
        signed(signed_header) ==
            bls_Verify(proposer.pubkey,
                       compute_signing_root(HeaderFields(signed_header.message),
                                            DOMAIN_BEACON_PROPOSER),
                       signed_header.signature)
    IN  IF header_1.slot # header_2.slot THEN Fail(t, "header slots match")
        ELSE IF header_1.proposer_index # header_2.proposer_index
        THEN Fail(t, "header proposer indices match")
        ELSE IF header_1 = header_2 THEN Fail(t, "headers are different")
        ELSE IF header_1.proposer_index >= Len(t.state.validators)
        THEN Fail(t, "state.validators[proposer_index]")
        ELSE IF ~is_slashable_validator(proposer, t.ctx.current_shuffling.epoch)
        THEN Fail(t, "proposer is slashable")
        ELSE IF ~signed(proposer_slashing.signed_header_1)
                \/ ~signed(proposer_slashing.signed_header_2)
        THEN Fail(t, "proposer slashing signature")
        ELSE slash_validator(t, header_1.proposer_index)

\* is_valid_indexed_attestation; it raises, which is as good as False to
\* the assertions around it, for an index the context has no key of
is_valid_indexed_attestation(ctx, indexed_attestation) ==
    LET indices == indexed_attestation.attesting_indices
    IN  /\ Len(indices) > 0
        /\ \A k \in 1..(Len(indices) - 1) : indices[k] < indices[k + 1]
        /\ \A k \in 1..Len(indices) : indices[k] < Len(ctx.index2pubkey)
        /\ bls_FastAggregateVerify(
               [k \in 1..Len(indices) |-> ctx.index2pubkey[indices[k] + 1]],
               compute_signing_root(AttestationDataFields(indexed_attestation.data),
                                    DOMAIN_BEACON_ATTESTER),
               indexed_attestation.signature)

RECURSIVE SlashEachUnchecked(_, _, _)
SlashEachUnchecked(t, indices, k) ==
    IF ~t.ok \/ k > Len(indices) THEN t
    ELSE SlashEachUnchecked(slash_validator(t, indices[k]), indices, k + 1)

\* the loop of process_attester_slashing over sorted(indices) from the
\* k-th of them
RECURSIVE SlashEach(_, _, _)
SlashEach(t, indices, k) ==
    IF ~t.ok \/ k > Len(indices) THEN t
    ELSE SlashEach(
             IF is_slashable_validator(t.state.validators[indices[k] + 1],
                                       t.ctx.current_shuffling.epoch)
             THEN slash_validator(t, indices[k]) ELSE t,
             indices, k + 1)

process_attester_slashing(t, attester_slashing) ==
    LET attestation_1 == attester_slashing.attestation_1
        attestation_2 == attester_slashing.attestation_2
        indices == Elements(attestation_1.attesting_indices)
                       \cap Elements(attestation_2.attesting_indices)
        slashed_any ==
            \E i \in indices :
                is_slashable_validator(t.state.validators[i + 1],
                                       t.ctx.current_shuffling.epoch)
    IN  IF ~is_slashable_attestation_data(attestation_1.data, attestation_2.data)
        THEN Fail(t, "is_slashable_attestation_data")
        ELSE IF ~is_valid_indexed_attestation(t.ctx, attestation_1)
                \/ ~is_valid_indexed_attestation(t.ctx, attestation_2)
        THEN Fail(t, "is_valid_indexed_attestation")
        ELSE IF \E i \in indices : i >= Len(t.state.validators)
        THEN Fail(t, "validators[index]")
        ELSE IF ~slashed_any THEN Fail(t, "slashed_any")
        ELSE SlashEach(t, Sorted(indices), 1)

process_attestation(t, attestation) ==
    LET s == t.state
        ctx == t.ctx
        slot == s.slot
        data == attestation.data
        committee == get_beacon_committee(ctx, data.slot, data.index)
        pending_attestation ==
            [data |-> data,
             aggregation_bits |-> attestation.aggregation_bits,
             inclusion_delay |-> slot - data.slot,
             proposer_index |-> get_beacon_proposer(ctx, slot)]
        current == data.target.epoch = ctx.current_shuffling.epoch
        appended ==
            IF current
            THEN [t EXCEPT !.state.current_epoch_attestations =
                               Append(@, pending_attestation),
                           !.done = Append(@, "current_epoch_attestations")]
            ELSE [t EXCEPT !.state.previous_epoch_attestations =
                               Append(@, pending_attestation),
                           !.done = Append(@, "previous_epoch_attestations")]
        attesting_indices ==
            {committee[i] : i \in {j \in 1..Len(committee) :
                                      attestation.aggregation_bits[j]}}
    IN  IF ~CommitteeKnown(ctx, data.slot, data.index)
        THEN Fail(t, "get_committee_count_at_slot")
        ELSE IF data.target.epoch \notin {ctx.previous_shuffling.epoch,
                                          ctx.current_shuffling.epoch}
        THEN Fail(t, "target.epoch")
        ELSE IF data.target.epoch # compute_epoch_at_slot(data.slot)
        THEN Fail(t, "target.epoch == compute_epoch_at_slot(data.slot)")
        ELSE IF ~(data.slot + MIN_ATTESTATION_INCLUSION_DELAY <= slot
                  /\ slot <= data.slot + SLOTS_PER_EPOCH)
        THEN Fail(t, "inclusion delay")
        ELSE IF Len(attestation.aggregation_bits) # Len(committee)
        THEN Fail(t, "len(aggregation_bits) == len(committee)")
        ELSE IF ~ProposerKnown(ctx, slot) THEN Fail(t, "get_beacon_proposer")
        ELSE IF current /\ data.source # s.current_justified_checkpoint
        THEN Fail(t, "source == current_justified_checkpoint")
        ELSE IF ~current /\ data.source # s.previous_justified_checkpoint
        THEN Fail(t, "source == previous_justified_checkpoint")
        ELSE IF ~is_valid_indexed_attestation(
                    ctx,
                    [attesting_indices |-> Sorted(attesting_indices),
                     data |-> data,
                     signature |-> attestation.signature])
        THEN Fail(appended, "is_valid_indexed_attestation")
        ELSE appended

\* the value is_valid_merkle_branch compares with the root, after the
\* levels from i up; the index is below 2^31 and a hash is not negative
RECURSIVE MerkleValue(_, _, _, _, _)
MerkleValue(value, branch, depth, index, i) ==
    IF i >= depth \/ value < 0 THEN value
    ELSE MerkleValue(IF i <= 30 /\ (index \div (2 ^ Min(i, 30))) % 2 = 1
                     THEN Root(<<branch[i + 1], value>>)
                     ELSE Root(<<value, branch[i + 1]>>),
                     branch, depth, index, i + 1)

is_valid_merkle_branch(leaf, branch, depth, index, root) ==
    MerkleValue(leaf, branch, depth, index, 0) = root

\* variant: the signature of a deposit for a new pubkey is not looked at
process_deposit_unverified(t, deposit) ==
    LET s == t.state
        pubkey == deposit.data.pubkey
        amount == deposit.data.amount
        counted == [s EXCEPT !.eth1_deposit_index = @ + 1]
        signing_root == compute_signing_root(<<pubkey, amount>>, DOMAIN_DEPOSIT)
        validator ==
            [pubkey |-> pubkey,
             activation_eligibility_epoch |-> FAR_FUTURE_EPOCH,
             activation_epoch |-> FAR_FUTURE_EPOCH,
             exit_epoch |-> FAR_FUTURE_EPOCH,
             withdrawable_epoch |-> FAR_FUTURE_EPOCH,
             slashed |-> FALSE,
             effective_balance |->
                 Min(amount - (amount % EFFECTIVE_BALANCE_INCREMENT),
                     MAX_EFFECTIVE_BALANCE)]
        new_state ==
            IF pubkey \notin DOMAIN t.ctx.pubkey2index
            THEN Credited([counted EXCEPT !.validators = Append(@, validator),
                                          !.balances = Append(@, amount)],
                          amount)
            ELSE increase_balance(counted, t.ctx.pubkey2index[pubkey], amount)
    IN  IF ~is_valid_merkle_branch(Root(DepositDataFields(deposit.data)),
                                   deposit.proof, DEPOSIT_CONTRACT_TREE_DEPTH + 1,
                                   s.eth1_deposit_index, s.eth1_data.deposit_root)
        THEN Fail(t, "is_valid_merkle_branch")
        ELSE IF pubkey \in DOMAIN t.ctx.pubkey2index
                /\ t.ctx.pubkey2index[pubkey] >= Len(s.balances)
        THEN Fail([t EXCEPT !.state = counted], "state.balances[index]")
        ELSE [t EXCEPT !.state = new_state,
                       !.ctx = sync_pubkeys(t.ctx, new_state),
                       !.done = Append(@, "process_deposit")]

process_deposit(t, deposit) ==
    LET s == t.state
        pubkey == deposit.data.pubkey
        amount == deposit.data.amount
        counted == [s EXCEPT !.eth1_deposit_index = @ + 1]
        signing_root == compute_signing_root(<<pubkey, amount>>, DOMAIN_DEPOSIT)
        validator ==
            [pubkey |-> pubkey,
             activation_eligibility_epoch |-> FAR_FUTURE_EPOCH,
             activation_epoch |-> FAR_FUTURE_EPOCH,
             exit_epoch |-> FAR_FUTURE_EPOCH,
             withdrawable_epoch |-> FAR_FUTURE_EPOCH,
             slashed |-> FALSE,
             effective_balance |->
                 Min(amount - (amount % EFFECTIVE_BALANCE_INCREMENT),
                     MAX_EFFECTIVE_BALANCE)]
        new_state ==
            IF pubkey \notin DOMAIN t.ctx.pubkey2index
            THEN Credited([counted EXCEPT !.validators = Append(@, validator),
                                          !.balances = Append(@, amount)],
                          amount)
            ELSE increase_balance(counted, t.ctx.pubkey2index[pubkey], amount)
    IN  IF ~is_valid_merkle_branch(Root(DepositDataFields(deposit.data)),
                                   deposit.proof, DEPOSIT_CONTRACT_TREE_DEPTH + 1,
                                   s.eth1_deposit_index, s.eth1_data.deposit_root)
        THEN Fail(t, "is_valid_merkle_branch")
        ELSE IF pubkey \notin DOMAIN t.ctx.pubkey2index
                /\ ~bls_Verify(pubkey, signing_root, deposit.data.signature)
        THEN [t EXCEPT !.state = counted,
                       !.done = Append(@, "eth1_deposit_index")]
        ELSE IF pubkey \in DOMAIN t.ctx.pubkey2index
                /\ t.ctx.pubkey2index[pubkey] >= Len(s.balances)
        THEN Fail([t EXCEPT !.state = counted], "state.balances[index]")
        ELSE [t EXCEPT !.state = new_state,
                       !.ctx = sync_pubkeys(t.ctx, new_state),
                       !.done = Append(@, "process_deposit")]

process_voluntary_exit(t, signed_voluntary_exit) ==
    LET voluntary_exit == signed_voluntary_exit.message
        validator == t.state.validators[voluntary_exit.validator_index + 1]
        current_epoch == t.ctx.current_shuffling.epoch
        signing_root ==
            compute_signing_root(<<voluntary_exit.epoch,
                                   voluntary_exit.validator_index>>,
                                 DOMAIN_VOLUNTARY_EXIT)
    IN  IF voluntary_exit.validator_index >= Len(t.state.validators)
        THEN Fail(t, "state.validators[validator_index]")
        ELSE IF ~is_active_validator(validator, current_epoch)
        THEN Fail(t, "is_active_validator")
        ELSE IF validator.exit_epoch # FAR_FUTURE_EPOCH
        THEN Fail(t, "exit_epoch == FAR_FUTURE_EPOCH")
        ELSE IF ~(current_epoch >= voluntary_exit.epoch)
        THEN Fail(t, "current_epoch >= voluntary_exit.epoch")
        ELSE IF ~(current_epoch >= validator.activation_epoch + SHARD_COMMITTEE_PERIOD)
        THEN Fail(t, "SHARD_COMMITTEE_PERIOD")
        ELSE IF ~bls_Verify(validator.pubkey, signing_root,
                            signed_voluntary_exit.signature)
        THEN Fail(t, "voluntary exit signature")
        ELSE [t EXCEPT
                 !.state = initiate_validator_exit(t.ctx, t.state,
                                                   voluntary_exit.validator_index),
                 !.done = Append(@, "process_voluntary_exit")]


\* the calls for_ops makes for one list: (function, operation) pairs
ForOps(operations, function) ==
    [k \in 1..Len(operations) |-> <<function, operations[k]>>]

\* `for operation in operations: state = function(...)`, from call k on
RECURSIVE ProcessEach(_, _, _)
ProcessEach(t, calls, k) ==
    IF ~t.ok \/ k > Len(calls) THEN t
    ELSE ProcessEach(
             CASE calls[k][1] = "process_proposer_slashing" ->
                      process_proposer_slashing(t, calls[k][2])
               [] calls[k][1] = "process_attester_slashing" ->
                      process_attester_slashing(t, calls[k][2])
               [] calls[k][1] = "process_attestation" ->
                      process_attestation(t, calls[k][2])
               [] calls[k][1] = "process_deposit" ->
                      process_deposit(t, calls[k][2])
               [] OTHER -> process_voluntary_exit(t, calls[k][2]),
             calls, k + 1)

process_operations_at_most(t, body) ==
    IF ~t.ok THEN t
    ELSE IF Len(body.deposits)
           > Min(MAX_DEPOSITS,
                 t.state.eth1_data.deposit_count - t.state.eth1_deposit_index)
    THEN Fail(t, "len(body.deposits)")
    ELSE ProcessEach(
             t,
             ForOps(body.proposer_slashings, "process_proposer_slashing")
             \o ForOps(body.attester_slashings, "process_attester_slashing")
             \o ForOps(body.attestations, "process_attestation")
             \o ForOps(body.deposits, "process_deposit")
             \o ForOps(body.voluntary_exits, "process_voluntary_exit"),
             1)

process_operations_exits_first(t, body) ==
    IF ~t.ok THEN t
    ELSE IF Len(body.deposits)
           # Min(MAX_DEPOSITS,
                 t.state.eth1_data.deposit_count - t.state.eth1_deposit_index)
    THEN Fail(t, "len(body.deposits)")
    ELSE ProcessEach(
             t,
             ForOps(body.voluntary_exits, "process_voluntary_exit")
             \o ForOps(body.proposer_slashings, "process_proposer_slashing")
             \o ForOps(body.attester_slashings, "process_attester_slashing")
             \o ForOps(body.attestations, "process_attestation")
             \o ForOps(body.deposits, "process_deposit"),
             1)

process_operations(t, body) ==
    IF ~t.ok THEN t
    ELSE IF Len(body.deposits)
           # Min(MAX_DEPOSITS,
                 t.state.eth1_data.deposit_count - t.state.eth1_deposit_index)
    THEN Fail(t, "len(body.deposits)")
    ELSE ProcessEach(
             t,
             ForOps(body.proposer_slashings, "process_proposer_slashing")
             \o ForOps(body.attester_slashings, "process_attester_slashing")
             \o ForOps(body.attestations, "process_attestation")
             \o ForOps(body.deposits, "process_deposit")
             \o ForOps(body.voluntary_exits, "process_voluntary_exit"),
             1)

\* an exception of one step ends the block: the later steps pass a failed
\* run through
process_block(t, block) ==
    process_operations(
        process_eth1_data(
            process_randao(process_block_header(t, block), block.body),
            block.body),
        block.body)

\* compute_signing_root(signed_block.message, domain)
BlockSigningRoot(block) ==
    compute_signing_root(
        <<block.slot, block.proposer_index, block.parent_root, block.state_root,
          hash_tree_root_body(block.body)>>,
        DOMAIN_BEACON_PROPOSER)

verify_block_signature(s, signed_block) ==
    bls_Verify(s.validators[signed_block.message.proposer_index + 1].pubkey,
               BlockSigningRoot(signed_block.message), signed_block.signature)

\* state_transition after process_slots has given the run t
\* "Verify state root", on the run process_block gave
VerifyStateRoot(processed, block, validate_result) ==
    IF ~processed.ok THEN processed
    ELSE IF validate_result
            /\ block.state_root # hash_tree_root_state(processed.state)
    THEN Fail(processed, "invalid block state root")
    ELSE processed

\* state_transition after process_slots has given the run t
AfterSlots(t, signed_block, validate_result) ==
    IF ~t.ok THEN t
    ELSE IF validate_result
            /\ signed_block.message.proposer_index >= Len(t.state.validators)
    THEN Fail(t, "state.validators[proposer_index]")
    ELSE IF validate_result /\ ~verify_block_signature(t.state, signed_block)
    THEN Fail(t, "invalid block signature")
    ELSE VerifyStateRoot(process_block(t, signed_block.message),
                         signed_block.message, validate_result)

state_transition(t, signed_block, validate_result) ==
    AfterSlots(process_slots(t, signed_block.message.slot), signed_block,
               validate_result)

(***************************************************************************)
(* The caller: a chain that starts from a genesis state and hands signed   *)
(* blocks to state_transition.  The blocks are what a proposer builds on   *)
(* the state process_slots gives, with or without one thing wrong.         *)
(***************************************************************************)
\* the deposits the deposit contract may hold next
DepositKinds == {"new", "unsigned", "top_up"}

Deposit(kind) ==
    LET pubkey == IF kind = "top_up" THEN 1 ELSE GenesisValidators + 1
        amount == IF kind = "top_up" THEN EFFECTIVE_BALANCE_INCREMENT
                  ELSE MAX_EFFECTIVE_BALANCE
    IN  [proof |-> [k \in 1..(DEPOSIT_CONTRACT_TREE_DEPTH + 1) |-> 0],
         data |-> [pubkey |-> pubkey,
                   amount |-> amount,
                   signature |->
                       IF kind = "new"
                       THEN Sign(<<pubkey>>,
                                 compute_signing_root(<<pubkey, amount>>,
                                                      DOMAIN_DEPOSIT))
                       ELSE NoSignature]]

\* the deposit root under which the deposit is the one of this index
DepositRoot(deposit, index) ==
    MerkleValue(Root(DepositDataFields(deposit.data)), deposit.proof,
                DEPOSIT_CONTRACT_TREE_DEPTH + 1, index, 0)

\* a genesis state; pending is the deposit the eth1 data counts and the
\* state has not processed, or "none"
GenesisState(pending) ==
    [slot |-> 0,
     latest_block_header |->
         [slot |-> 0, proposer_index |-> 0, parent_root |-> 0, state_root |-> 0,
          body_root |-> Root(<<>>)],
     block_roots |-> [k \in 0..(SLOTS_PER_HISTORICAL_ROOT - 1) |-> 0],
     state_roots |-> [k \in 0..(SLOTS_PER_HISTORICAL_ROOT - 1) |-> 0],
     eth1_data |->
         [deposit_root |-> IF pending = "none" THEN 0
                           ELSE DepositRoot(Deposit(pending), GenesisValidators),
          deposit_count |-> IF pending = "none" THEN GenesisValidators
                            ELSE GenesisValidators + 1,
          block_hash |-> 1],
     eth1_data_votes |-> <<>>,
     eth1_deposit_index |-> GenesisValidators,
     validators |->
         [k \in 1..GenesisValidators |->
             [pubkey |-> k,
              effective_balance |-> MAX_EFFECTIVE_BALANCE,
              slashed |-> FALSE,
              activation_eligibility_epoch |-> GENESIS_EPOCH,
              activation_epoch |-> GENESIS_EPOCH,
              exit_epoch |-> FAR_FUTURE_EPOCH,
              withdrawable_epoch |-> FAR_FUTURE_EPOCH]],
     balances |-> [k \in 1..GenesisValidators |-> MAX_EFFECTIVE_BALANCE],
     randao_mixes |->
         [k \in 0..(EPOCHS_PER_HISTORICAL_VECTOR - 1) |-> hash_eth2(<<1>>)],
     slashings |-> [k \in 0..(EPOCHS_PER_SLASHINGS_VECTOR - 1) |-> 0],
     previous_epoch_attestations |-> <<>>,
     current_epoch_attestations |-> <<>>,
     justification_bits |-> [k \in 0..(JUSTIFICATION_BITS_LENGTH - 1) |-> FALSE],
     previous_justified_checkpoint |-> [epoch |-> GENESIS_EPOCH, root |-> 0],
     current_justified_checkpoint |-> [epoch |-> GENESIS_EPOCH, root |-> 0],
     finalized_checkpoint |-> [epoch |-> GENESIS_EPOCH, root |-> 0],
     ledger |-> [credited |-> 0, charged |-> 0, clipped |-> 0]]

\* what a block may carry besides its deposits, what it does about the
\* deposits due, and the one thing that may be wrong with it
Operations ==
    {"none", "proposer_slashing", "proposer_slashing_same",
     "attester_slashing", "attester_slashing_same",
     "attestation", "attestation_wrong_head", "attestation_unsigned",
     "voluntary_exit", "voluntary_exit_unsigned"}

Defects ==
    {"proposer_index", "signature", "parent_root", "randao_reveal", "state_root"}

BlockChoices ==
    {[operations |-> o, deposits |-> d, defect |-> "none", eth1 |-> "same"] :
        o \in Operations, d \in {"due", "wrong"}}
    \cup {[operations |-> "none", deposits |-> "due", defect |-> x,
           eth1 |-> "same"] : x \in Defects}
    \cup {[operations |-> "none", deposits |-> "due", defect |-> "none",
           eth1 |-> "new"]}

\* the operation lists the block of a choice fills: one, or several at once
Carried(operations) ==
    CASE operations = "both_slashings" -> {"proposer_slashing", "attester_slashing"}
      [] operations = "slashing_and_exit" -> {"proposer_slashing", "voluntary_exit"}
      [] operations = "every" ->
             {"proposer_slashing", "attester_slashing", "attestation",
              "voluntary_exit"}
      [] OTHER -> {operations}

\* the body of the block of a choice, built on the run process_slots gave
BlockBody(a, slot, proposer, choice) ==
    LET s == a.state
        ctx == a.ctx
        n == Len(s.validators)
        key(i) == s.validators[(i % n) + 1].pubkey
        epoch == compute_epoch_at_slot(slot)
        header(body_root) ==
            [slot |-> slot, proposer_index |-> 2 % n, parent_root |-> 0,
             state_root |-> 0, body_root |-> body_root]
        signed_header(body_root) ==
            [message |-> header(body_root),
             signature |->
                 Sign(<<key(2)>>,
                      compute_signing_root(HeaderFields(header(body_root)),
                                           DOMAIN_BEACON_PROPOSER))]
        vote(root) ==
            [slot |-> compute_start_slot_at_epoch(epoch), index |-> 0,
             beacon_block_root |-> root,
             source |-> s.current_justified_checkpoint,
             target |-> [epoch |-> epoch, root |-> root]]
        indexed(indices, data) ==
            [attesting_indices |-> indices,
             data |-> data,
             signature |->
                 Sign([k \in 1..Len(indices) |-> key(indices[k])],
                      compute_signing_root(AttestationDataFields(data),
                                           DOMAIN_BEACON_ATTESTER))]
        att_slot == IF slot > 0 THEN slot - 1 ELSE 0
        att_epoch == compute_epoch_at_slot(att_slot)
        committee == IF CommitteeKnown(ctx, att_slot, 0)
                     THEN get_beacon_committee(ctx, att_slot, 0) ELSE <<>>
        att_data ==
            [slot |-> att_slot, index |-> 0,
             beacon_block_root |->
                 IF choice.operations = "attestation_wrong_head" THEN 0
                 ELSE get_block_root_at_slot(s, att_slot),
             source |-> IF att_epoch = ctx.current_shuffling.epoch
                        THEN s.current_justified_checkpoint
                        ELSE s.previous_justified_checkpoint,
             target |->
                 [epoch |-> att_epoch,
                  root |-> get_block_root_at_slot(
                               s, compute_start_slot_at_epoch(att_epoch))]]
        attesters == Sorted(Elements(committee))
        attestation ==
            [aggregation_bits |-> [k \in 1..Len(committee) |-> TRUE],
             data |-> att_data,
             signature |->
                 IF choice.operations = "attestation_unsigned" THEN NoSignature
                 ELSE Sign([k \in 1..Len(attesters) |-> key(attesters[k])],
                           compute_signing_root(AttestationDataFields(att_data),
                                                DOMAIN_BEACON_ATTESTER))]
        exit == [epoch |-> epoch,
                 validator_index |-> IF choice.operations = "slashing_and_exit"
                                     THEN 2 % n ELSE 0]
        eth1_data ==
            CASE choice.eth1 = "same" -> s.eth1_data
              [] choice.eth1 = "fewer" ->
                     [deposit_root |-> 0,
                      deposit_count |-> s.eth1_data.deposit_count - 1,
                      block_hash |-> 3]
              [] OTHER ->
                     [deposit_root |->
                          DepositRoot(Deposit("top_up"), s.eth1_data.deposit_count),
                      deposit_count |->
                          s.eth1_data.deposit_count
                              + (IF choice.eth1 = "many" THEN 2 ELSE 1),
                      block_hash |-> 2]
        \* the deposits are counted on the state the block's vote leaves
        voted == process_eth1_data(a, [eth1_data |-> eth1_data]).state
        pending == voted.eth1_data.deposit_count - voted.eth1_deposit_index
        due == {k \in DepositKinds :
                   /\ pending > 0
                   /\ DepositRoot(Deposit(k), voted.eth1_deposit_index)
                          = voted.eth1_data.deposit_root}
        not_due == CHOOSE k \in DepositKinds : k \notin due
    IN  [randao_reveal |->
             IF choice.defect = "randao_reveal" THEN NoSignature
             ELSE Sign(<<key(proposer)>>,
                       compute_signing_root(<<epoch>>, DOMAIN_RANDAO)),
         eth1_data |-> eth1_data,
         proposer_slashings |->
             IF "proposer_slashing" \in Carried(choice.operations)
             THEN <<[signed_header_1 |-> signed_header(1),
                     signed_header_2 |-> signed_header(2)]>>
             ELSE IF choice.operations = "proposer_slashing_same"
             THEN <<[signed_header_1 |-> signed_header(1),
                     signed_header_2 |-> signed_header(1)]>>
             ELSE <<>>,
         attester_slashings |->
             IF "attester_slashing" \in Carried(choice.operations)
             THEN <<[attestation_1 |-> indexed(<<0, 1, 2>>, vote(1)),
                     attestation_2 |-> indexed(<<1, 2>>, vote(2))]>>
             ELSE IF choice.operations = "attester_slashing_same"
             THEN <<[attestation_1 |-> indexed(<<0, 1>>, vote(1)),
                     attestation_2 |-> indexed(<<1, 2>>, vote(1))]>>
             ELSE <<>>,
         attestations |->
             IF Carried(choice.operations)
                    \cap {"attestation", "attestation_wrong_head",
                          "attestation_unsigned"} # {}
             THEN <<attestation>> ELSE <<>>,
         deposits |->
             CASE choice.deposits = "due" ->
                      [k \in 1..(IF due = {} THEN 0 ELSE Min(MAX_DEPOSITS, pending)) |->
                          Deposit(CHOOSE d \in due : TRUE)]
               [] choice.deposits = "all" ->
                      [k \in 1..(IF due = {} THEN 0 ELSE pending) |->
                          Deposit(CHOOSE d \in due : TRUE)]
               [] choice.deposits = "none" -> <<>>
               [] OTHER -> <<Deposit(not_due)>>,
         voluntary_exits |->
             IF "voluntary_exit" \in Carried(choice.operations)
             THEN <<[message |-> exit,
                     signature |->
                         Sign(<<key(exit.validator_index)>>,
                              compute_signing_root(<<exit.epoch, exit.validator_index>>,
                                                   DOMAIN_VOLUNTARY_EXIT))]>>
             ELSE IF choice.operations = "voluntary_exit_unsigned"
             THEN <<[message |-> exit, signature |-> NoSignature]>>
             ELSE <<>>]

\* the block of a choice for the slot, before its state root is known
UnsignedBlock(a, slot, choice) ==
    LET n == Len(a.state.validators)
        proposer == IF ProposerKnown(a.ctx, slot)
                    THEN get_beacon_proposer(a.ctx, slot) ELSE 0
    IN  [slot |-> slot,
         proposer_index |-> IF choice.defect = "proposer_index"
                            THEN (proposer + 1) % n ELSE proposer,
         parent_root |-> IF choice.defect = "parent_root" THEN 0
                         ELSE Root(HeaderFields(a.state.latest_block_header)),
         state_root |-> 0,
         body |-> BlockBody(a, slot, proposer, choice)]

\* the proposer runs the block to learn the state root it declares
WithStateRoot(unsigned, post, choice) ==
    [unsigned EXCEPT !.state_root =
        IF choice.defect # "state_root" /\ post.ok
        THEN hash_tree_root_state(post.state) ELSE 0]

ProposedBlock(a, unsigned, choice) ==
    WithStateRoot(unsigned, process_block(a, unsigned), choice)

Signed(s, block, choice) ==
    [message |-> block,
     signature |->
         IF choice.defect = "signature" THEN NoSignature
         ELSE Sign(<<s.validators[block.proposer_index + 1].pubkey>>,
                   BlockSigningRoot(block))]

\* the signed block of a choice for the slot, built on the run
\* process_slots gave
SignedBlock(a, slot, choice) ==
    Signed(a.state, ProposedBlock(a, UnsignedBlock(a, slot, choice), choice),
           choice)

\* the caller hands a block to state_transition; it keeps the state
\* returned, or on an exception the state it held
StateTransition ==
    /\ ntransitions < MaxTransitions
    /\ \E skip \in {k \in (0 - 1)..MaxSkip : state.slot + k >= 0} :
          \E advanced \in
                {process_slots([ok |-> TRUE, at |-> "", done |-> <<>>,
                                state |-> state, held |-> state,
                                ctx |-> epochs_ctx],
                               state.slot + skip)} :
             \E choice \in BlockChoices, validate_result \in BOOLEAN :
                \E t \in {AfterSlots(advanced,
                                     SignedBlock(advanced, state.slot + skip,
                                                 choice),
                                     validate_result)} :
                   /\ state' = IF t.ok THEN t.state ELSE t.held
                   /\ epochs_ctx' = t.ctx
                   /\ last_call' =
                          [result |-> IF t.ok THEN "accepted" ELSE "rejected",
                           at |-> t.at,
                           done |-> t.done,
                           pre_state |-> state,
                           pre_ctx |-> epochs_ctx,
                           slot |-> state.slot + skip,
                           operations |-> choice.operations]
    /\ ntransitions' = ntransitions + 1
    /\ UNCHANGED notBeacon

InitBeacon ==
    /\ \E pending \in DepositKinds \cup {"none"} : state = GenesisState(pending)
    /\ epochs_ctx = load_state(state)
    /\ last_call = [result |-> "none", at |-> "", done |-> <<>>,
                    pre_state |-> state, pre_ctx |-> epochs_ctx]
    /\ ntransitions = 0
    /\ DownloaderIdle
    /\ ShuffleIdle
    /\ CommitteeIdle

NextBeacon == StateTransition

SpecBeacon == InitBeacon /\ [][NextBeacon]_vars

(***************************************************************************)
(* Properties of the state transition                                      *)
(***************************************************************************)
\* C6: when state_transition fails, the epoch context passed in is as it
\* was before the call: no rotation of the shufflings and the proposers
\* and no pubkey of a deposit of the rejected block survives.
C6_ContextAsBeforeOnFailure ==
    last_call.result = "rejected" => epochs_ctx = last_call.pre_ctx

\* C7: when a check of block processing or of an operation fails, the
\* state the caller holds is the one it held before the call, whatever
\* earlier steps of the block had produced.
C7_PreStateKeptOnFailure ==
    last_call.result = "rejected" => state = last_call.pre_state

C7_Witness ==
    /\ last_call.result = "rejected"
    /\ last_call.at = "voluntary exit signature"
    /\ \E k \in 1..Len(last_call.done) : last_call.done[k] = "process_deposit"
    /\ \E k \in 1..Len(last_call.done) : last_call.done[k] = "randao_mixes"
    /\ state = last_call.pre_state

(***************************************************************************)
(* A longer chain: one block per slot, with or without the attestation of  *)
(* the committee of the slot before, from a genesis state with no deposit  *)
(* pending or with one new validator's deposit pending.                    *)
(***************************************************************************)
MaxChain == 12

\* the slots whose block may leave the attestation out
QuietSlots == {2, 5, 9, 10}

\* the slots whose block may carry a proposer slashing instead
SlashSlots == {2}

\* the slots whose block may carry a voluntary exit instead
ExitSlots == {3}

ChainChoices(slot) ==
    {[operations |-> o, deposits |-> "due", defect |-> "none", eth1 |-> "same"] :
        o \in {"attestation"}
                 \cup (IF slot \in QuietSlots THEN {"none"} ELSE {})
                 \cup (IF slot \in SlashSlots THEN {"proposer_slashing"} ELSE {})
                 \cup (IF slot \in ExitSlots THEN {"voluntary_exit"} ELSE {})}

ChainTransition ==
    /\ ntransitions < MaxChain
    /\ \E advanced \in
             {process_slots([ok |-> TRUE, at |-> "", done |-> <<>>,
                             state |-> state, held |-> state, ctx |-> epochs_ctx],
                            state.slot + 1)} :
          \E choice \in ChainChoices(state.slot + 1) :
             \E t \in {AfterSlots(advanced,
                                  SignedBlock(advanced, state.slot + 1, choice),
                                  TRUE)} :
                /\ state' = IF t.ok THEN t.state ELSE t.held
                /\ epochs_ctx' = t.ctx
                /\ last_call' =
                       [result |-> IF t.ok THEN "accepted" ELSE "rejected",
                        at |-> t.at,
                        done |-> t.done,
                        pre_state |-> state,
                        pre_ctx |-> epochs_ctx]
    /\ ntransitions' = ntransitions + 1
    /\ UNCHANGED notBeacon

InitChain ==
    /\ \E pending \in {"none", "new"} : state = GenesisState(pending)
    /\ epochs_ctx = load_state(state)
    /\ last_call = [result |-> "none", at |-> "", done |-> <<>>,
                    pre_state |-> state, pre_ctx |-> epochs_ctx]
    /\ ntransitions = 0
    /\ DownloaderIdle
    /\ ShuffleIdle
    /\ CommitteeIdle

NextChain == ChainTransition

SpecChain == InitChain /\ [][NextChain]_vars

\* C11: across accepted transitions the epoch of the finalized checkpoint
\* never decreases.
C11_FinalizedEpochMonotone ==
    [][state'.finalized_checkpoint.epoch >= state.finalized_checkpoint.epoch]_vars

C11_Witness ==
    /\ last_call.result = "accepted"
    /\ state.finalized_checkpoint.epoch > last_call.pre_state.finalized_checkpoint.epoch
    /\ last_call.pre_state.finalized_checkpoint.epoch > GENESIS_EPOCH

\* the validators of the state before the last call that the call slashed
NewlySlashed ==
    {i \in 1..Len(last_call.pre_state.validators) :
        /\ ~last_call.pre_state.validators[i].slashed
        /\ state.validators[i].slashed}

\* C12: a validator slashed by an accepted transition is withdrawable no
\* sooner than EPOCHS_PER_SLASHINGS_VECTOR epochs after the epoch of the
\* slashing; a validator slashed before stays slashed, its withdrawable
\* epoch is not lowered, and it is not slashed again.
C12_SlashedStaysLocked ==
    last_call.result = "accepted" =>
        /\ \A i \in NewlySlashed :
               state.validators[i].withdrawable_epoch
                   >= compute_epoch_at_slot(state.slot) + EPOCHS_PER_SLASHINGS_VECTOR
        /\ \A i \in 1..Len(last_call.pre_state.validators) :
               last_call.pre_state.validators[i].slashed =>
                   /\ state.validators[i].slashed
                   /\ state.validators[i].withdrawable_epoch
                          >= last_call.pre_state.validators[i].withdrawable_epoch
        /\ Cardinality({k \in 1..Len(last_call.done) :
                           last_call.done[k] = "slash_validator"})
               = Cardinality(NewlySlashed)

\* an attester slashing over a validator slashed before and one not yet
C12_Witness ==
    /\ last_call.result = "accepted"
    /\ NewlySlashed # {}
    /\ \E i \in 1..Len(last_call.pre_state.validators) :
           /\ last_call.pre_state.validators[i].slashed
           /\ \E k \in 1..Len(last_call.done) : last_call.done[k] = "process_epoch"

MaxHops == 4

HopChoices(n) ==
    {[operations |-> o, deposits |-> "due", defect |-> "none", eth1 |-> "same"] :
        o \in {"none", "attestation"}
                 \cup (IF n = 0 THEN {"proposer_slashing"} ELSE {})}

HopTransition ==
    /\ ntransitions < MaxHops
    /\ \E skip \in 1..MaxSkip :
          \E advanced \in
                {process_slots([ok |-> TRUE, at |-> "", done |-> <<>>,
                                state |-> state, held |-> state, ctx |-> epochs_ctx],
                               state.slot + skip)} :
             \E choice \in HopChoices(ntransitions) :
                \E t \in {AfterSlots(advanced,
                                     SignedBlock(advanced, state.slot + skip, choice),
                                     TRUE)} :
                   /\ state' = IF t.ok THEN t.state ELSE t.held
                   /\ epochs_ctx' = t.ctx
                   /\ last_call' =
                          [result |-> IF t.ok THEN "accepted" ELSE "rejected",
                           at |-> t.at,
                           done |-> t.done,
                           pre_state |-> state,
                           pre_ctx |-> epochs_ctx]
    /\ ntransitions' = ntransitions + 1
    /\ UNCHANGED notBeacon

NextHop == HopTransition

SpecHop == InitChain /\ [][NextHop]_vars

\* what the last call changed the sum of all balances by
BalanceChange ==
    Sum(state.balances, 1) - Sum(last_call.pre_state.balances, 1)

\* rewards and deposits less penalties and slashing penalties, as the last
\* call computed them
ComputedChange ==
    (state.ledger.credited - last_call.pre_state.ledger.credited)
        - (state.ledger.charged - last_call.pre_state.ledger.charged)

\* the part of the penalties of the last call that met no balance
ClippedChange ==
    state.ledger.clipped - last_call.pre_state.ledger.clipped

\* C14 as stated: an accepted transition changes the sum of all balances by
\* the rewards, less the penalties, plus the deposits, less the slashing
\* penalties it computed.
C14_BalanceChangeIsComputed ==
    last_call.result = "accepted" => BalanceChange = ComputedChange

\* C14 as amended: the same, each penalty counted only up to the balance it
\* is charged to.
C14_BalanceChangeIsComputedClipped ==
    last_call.result = "accepted" =>
        BalanceChange = ComputedChange + ClippedChange

C14_Witness ==
    /\ last_call.result = "accepted"
    /\ ClippedChange > 0
    /\ state.ledger.credited > last_call.pre_state.ledger.credited

\* C17: after every transition the justification bits are four, those of
\* the four latest epochs.
C17_FourJustificationBits ==
    /\ DOMAIN state.justification_bits = 0..(JUSTIFICATION_BITS_LENGTH - 1)
    /\ Cardinality(DOMAIN state.justification_bits) = 4

\* the bits of an earlier epoch have been shifted to the last place, and an
\* epoch transition before GENESIS_EPOCH + 2 has left the bits alone
C17_Witness ==
    /\ last_call.result = "accepted"
    /\ state.justification_bits[3]
    /\ ~state.justification_bits[0]
    /\ \E k \in 1..Len(last_call.done) : last_call.done[k] = "process_epoch"

\* the state process_slots makes of the state before the last call for a
\* slot on the way to the block's
StateOnTheWay(slot) ==
    IF slot = last_call.pre_state.slot THEN last_call.pre_state
    ELSE process_slots([ok |-> TRUE, at |-> "", done |-> <<>>,
                        state |-> last_call.pre_state,
                        held |-> last_call.pre_state,
                        ctx |-> last_call.pre_ctx], slot).state

\* latest_block_header as the slot tick leaves it
PatchedHeader(s) ==
    IF s.latest_block_header.state_root = 0
    THEN [s.latest_block_header EXCEPT !.state_root = hash_tree_root_state(s)]
    ELSE s.latest_block_header

\* C18: a block whose slot is not after the state's is rejected by the
\* assertion of process_slots; an accepted block leaves the state at the
\* block's slot, with the state root and the block root of every slot passed
\* in the rings at slot mod SLOTS_PER_HISTORICAL_ROOT, and where neither an
\* epoch transition nor an operation of the block came in, with the
\* validators it had.
C18_SlotsAdvanceToBlock ==
    last_call.result # "none" =>
        /\ last_call.slot <= last_call.pre_state.slot =>
               /\ last_call.result = "rejected"
               /\ last_call.at = "process_slots: state.slot < slot"
        /\ last_call.result = "accepted" =>
               /\ state.slot = last_call.slot
               /\ \A k \in last_call.pre_state.slot..(last_call.slot - 1) :
                      /\ state.state_roots[k % SLOTS_PER_HISTORICAL_ROOT]
                             = hash_tree_root_state(StateOnTheWay(k))
                      /\ state.block_roots[k % SLOTS_PER_HISTORICAL_ROOT]
                             = Root(HeaderFields(PatchedHeader(StateOnTheWay(k))))
               /\ (\A k \in 1..Len(last_call.done) :
                       last_call.done[k] \notin
                           {"process_epoch", "process_deposit", "slash_validator",
                            "process_voluntary_exit"}) =>
                      state.validators = last_call.pre_state.validators

\* a block two slots on, accepted, after one for a slot not after the
\* state's was turned down
C18_Witness ==
    /\ last_call.result = "accepted"
    /\ last_call.slot = last_call.pre_state.slot + 2
    /\ ntransitions = 2
    /\ state.validators = last_call.pre_state.validators

\* the run as process_slots left it before the block of the last call
AdvancedRun ==
    process_slots([ok |-> TRUE, at |-> "", done |-> <<>>,
                   state |-> last_call.pre_state, held |-> last_call.pre_state,
                   ctx |-> last_call.pre_ctx], last_call.slot)

\* the last call was an accepted block whose one balance-changing operation
\* was a proposer slashing
ProposerSlashingProcessed ==
    /\ last_call.result = "accepted"
    /\ last_call.operations = "proposer_slashing"
    /\ \A k \in 1..Len(last_call.done) : last_call.done[k] # "process_deposit"

\* the balances after a proposer slashing of `slashed` in a block of
\* `proposer`, who is paid `reward`
BalancesAfterSlashing(a, slashed, proposer, reward) ==
    LET effective == a.state.validators[slashed + 1].effective_balance
        penalty == effective \div MIN_SLASHING_PENALTY_QUOTIENT
        left(i) == IF i # slashed + 1 THEN a.state.balances[i]
                   ELSE IF penalty > a.state.balances[i] THEN 0
                   ELSE a.state.balances[i] - penalty
    IN  [i \in 1..Len(a.state.balances) |->
            left(i) + IF i = proposer + 1 THEN reward ELSE 0]

SlashedIndex(a) == 2 % Len(a.state.validators)

SlashedEffectiveBalance(a) ==
    a.state.validators[SlashedIndex(a) + 1].effective_balance

\* C19 as stated: the proposer of a block with a proposer slashing gains
\* whistleblower_reward / 8 and the slashed validator loses
\* effective_balance / MIN_SLASHING_PENALTY_QUOTIENT, saturating at zero
\* (read for a proposer other than the slashed validator).
C19_ProposerGainsEighth ==
    ProposerSlashingProcessed =>
        \A a \in {AdvancedRun} :
            get_beacon_proposer(a.ctx, last_call.slot) # SlashedIndex(a) =>
            state.balances =
                BalancesAfterSlashing(
                    a, SlashedIndex(a), get_beacon_proposer(a.ctx, last_call.slot),
                    (SlashedEffectiveBalance(a) \div WHISTLEBLOWER_REWARD_QUOTIENT)
                        \div PROPOSER_REWARD_QUOTIENT)

\* C19 amended: the proposer gains the whole whistleblower_reward (its eighth
\* as proposer and the rest as the whistleblower no one else is), and the
\* slashed validator loses effective_balance / MIN_SLASHING_PENALTY_QUOTIENT,
\* saturating at zero.
C19_ProposerGainsWhistleblowerReward ==
    ProposerSlashingProcessed =>
        \A a \in {AdvancedRun} :
            state.balances =
                BalancesAfterSlashing(
                    a, SlashedIndex(a), get_beacon_proposer(a.ctx, last_call.slot),
                    SlashedEffectiveBalance(a) \div WHISTLEBLOWER_REWARD_QUOTIENT)

C19_Witness ==
    /\ ProposerSlashingProcessed
    /\ \A a \in {AdvancedRun} :
           /\ get_beacon_proposer(a.ctx, last_call.slot) # SlashedIndex(a)
           /\ state.balances[SlashedIndex(a) + 1]
                  = a.state.balances[SlashedIndex(a) + 1]
                        - SlashedEffectiveBalance(a) \div MIN_SLASHING_PENALTY_QUOTIENT
           /\ SlashedEffectiveBalance(a) \div WHISTLEBLOWER_REWARD_QUOTIENT >= 8

(***************************************************************************)
(* The checks on one attestation: validate_attestation_slot and            *)
(* _validate_attestation_data of the serenity block validation, and        *)
(* process_attestation of the fast state machine, on the same state.       *)
(***************************************************************************)
validate_attestation_slot_strict(attestation_slot, state_slot, slots_per_epoch, min_attestation_inclusion_delay) ==
    IF attestation_slot + min_attestation_inclusion_delay >= state_slot
    THEN "ValidationError"
    ELSE IF state_slot > attestation_slot + slots_per_epoch
    THEN "ValidationError"
    ELSE "ok"

validate_attestation_slot(attestation_slot, state_slot, slots_per_epoch, min_attestation_inclusion_delay) ==
    IF attestation_slot + min_attestation_inclusion_delay > state_slot
    THEN "ValidationError"
    ELSE IF state_slot > attestation_slot + slots_per_epoch
    THEN "ValidationError"
    ELSE "ok"

_validate_eligible_target_epoch(target_epoch, current_epoch, previous_epoch) ==
    IF target_epoch \notin {previous_epoch, current_epoch}
    THEN "ValidationError" ELSE "ok"

_validate_slot_matches_target_epoch(target_epoch, attestation_slot) ==
    IF target_epoch # compute_epoch_at_slot(attestation_slot)
    THEN "ValidationError" ELSE "ok"

_validate_checkpoint_epoch_only(checkpoint, expected_checkpoint) ==
    IF checkpoint.epoch # expected_checkpoint.epoch THEN "ValidationError" ELSE "ok"

_validate_checkpoint(checkpoint, expected_checkpoint) ==
    IF checkpoint # expected_checkpoint THEN "ValidationError" ELSE "ok"

\* state.current_epoch and state.previous_epoch
StateCurrentEpoch(s) == compute_epoch_at_slot(s.slot)

StatePreviousEpoch(s) ==
    IF StateCurrentEpoch(s) > GENESIS_EPOCH THEN StateCurrentEpoch(s) - 1
    ELSE GENESIS_EPOCH

\* _validate_attestation_data: "ok" or the check that raised.  The
\* committee count of the slot is that of the validators active in its epoch.
_validate_attestation_data(s, data) ==
    LET current_epoch == StateCurrentEpoch(s)
        previous_epoch == StatePreviousEpoch(s)
        expected_checkpoint ==
            IF data.target.epoch = current_epoch
            THEN s.current_justified_checkpoint
            ELSE s.previous_justified_checkpoint
        active ==
            Cardinality({k \in 1..Len(s.validators) :
                            is_active_validator(s.validators[k],
                                                compute_epoch_at_slot(data.slot))})
        committees_per_slot ==
            Max(1, Min(MAX_COMMITTEES_PER_SLOT,
                       (active \div SLOTS_PER_EPOCH) \div TARGET_COMMITTEE_SIZE))
    IN  IF data.index >= committees_per_slot
        THEN "_validate_eligible_committee_index"
        ELSE IF _validate_eligible_target_epoch(data.target.epoch, current_epoch,
                                                previous_epoch) # "ok"
        THEN "_validate_eligible_target_epoch"
        ELSE IF _validate_slot_matches_target_epoch(data.target.epoch, data.slot)
                    # "ok"
        THEN "_validate_slot_matches_target_epoch"
        ELSE IF validate_attestation_slot(data.slot, s.slot, SLOTS_PER_EPOCH,
                                          MIN_ATTESTATION_INCLUSION_DELAY) # "ok"
        THEN "validate_attestation_slot"
        ELSE IF _validate_checkpoint(data.source, expected_checkpoint) # "ok"
        THEN "_validate_checkpoint"
        ELSE "ok"

\* the last slot of the states and of the attestations tried
MaxStateSlot == 5

\* the largest slots_per_epoch and min_attestation_inclusion_delay tried
MaxWindow == 3

\* attestations processed one after the other
MaxAttestations == 1

JustifiedRoots == {17, 34}

\* what the source checkpoint of an attestation is
SourceKinds == {"current", "previous", "epoch_off", "root_off"}

\* the attestation of the whole committee of a slot
AttestationOf(s, ctx, attestation_slot, source_kind) ==
    LET att_epoch == compute_epoch_at_slot(attestation_slot)
        expected == IF att_epoch = StateCurrentEpoch(s)
                    THEN s.current_justified_checkpoint
                    ELSE s.previous_justified_checkpoint
        committee == IF CommitteeKnown(ctx, attestation_slot, 0)
                     THEN get_beacon_committee(ctx, attestation_slot, 0) ELSE <<>>
        attesters == Sorted(Elements(committee))
        data ==
            [slot |-> attestation_slot, index |-> 0,
             beacon_block_root |-> get_block_root_at_slot(s, attestation_slot),
             source |->
                 CASE source_kind = "current" -> s.current_justified_checkpoint
                   [] source_kind = "previous" -> s.previous_justified_checkpoint
                   [] source_kind = "epoch_off" -> [expected EXCEPT !.epoch = @ + 1]
                   [] OTHER -> [expected EXCEPT !.root = @ + 1],
             target |->
                 [epoch |-> att_epoch,
                  root |-> get_block_root_at_slot(
                               s, compute_start_slot_at_epoch(att_epoch))]]
    IN  [aggregation_bits |-> [k \in 1..Len(committee) |-> TRUE],
         data |-> data,
         signature |->
             Sign([k \in 1..Len(attesters) |->
                      s.validators[attesters[k] + 1].pubkey],
                  compute_signing_root(AttestationDataFields(data),
                                       DOMAIN_BEACON_ATTESTER))]

ProcessAttestation ==
    /\ ntransitions < MaxAttestations
    /\ \E attestation_slot \in 0..(MaxStateSlot + 1), source_kind \in SourceKinds,
          slots_per_epoch \in 1..MaxWindow, delay \in 0..MaxWindow :
          \E t \in {process_attestation(
                        [ok |-> TRUE, at |-> "", done |-> <<>>, state |-> state,
                         held |-> state, ctx |-> epochs_ctx],
                        AttestationOf(state, epochs_ctx, attestation_slot,
                                      source_kind))} :
             /\ state' = IF t.ok THEN t.state ELSE t.held
             /\ epochs_ctx' = t.ctx
             /\ last_call' =
                    [result |-> IF t.ok THEN "accepted" ELSE "rejected",
                     at |-> t.at,
                     done |-> t.done,
                     pre_state |-> state,
                     pre_ctx |-> epochs_ctx,
                     data |-> AttestationOf(state, epochs_ctx, attestation_slot,
                                            source_kind).data,
                     serenity |->
                         _validate_attestation_data(
                             state,
                             AttestationOf(state, epochs_ctx, attestation_slot,
                                           source_kind).data),
                     window |->
                         [attestation_slot |-> attestation_slot,
                          state_slot |-> state.slot,
                          slots_per_epoch |-> slots_per_epoch,
                          min_attestation_inclusion_delay |-> delay,
                          result |-> validate_attestation_slot(
                                         attestation_slot, state.slot,
                                         slots_per_epoch, delay)]]
    /\ ntransitions' = ntransitions + 1
    /\ UNCHANGED notBeacon

\* a genesis state moved to a slot, with justified checkpoints no later than
\* its epoch
InitAttest ==
    /\ \E slot \in 0..MaxStateSlot, previous_root, current_root \in JustifiedRoots :
          \E current_justified \in 0..compute_epoch_at_slot(slot) :
             \E previous_justified \in 0..current_justified :
                state = [GenesisState("none") EXCEPT
                            !.slot = slot,
                            !.previous_justified_checkpoint =
                                [epoch |-> previous_justified, root |-> previous_root],
                            !.current_justified_checkpoint =
                                [epoch |-> current_justified, root |-> current_root]]
    /\ epochs_ctx = load_state(state)
    /\ last_call = [result |-> "none", at |-> "", done |-> <<>>,
                    pre_state |-> state, pre_ctx |-> epochs_ctx]
    /\ ntransitions = 0
    /\ DownloaderIdle
    /\ ShuffleIdle
    /\ CommitteeIdle

NextAttest == ProcessAttestation

SpecAttest == InitAttest /\ [][NextAttest]_vars

\* C15: validate_attestation_slot accepts exactly when attestation_slot +
\* min_inclusion_delay <= state_slot <= attestation_slot + slots_per_epoch,
\* and process_attestation accepts exactly that window for
\* MIN_ATTESTATION_INCLUSION_DELAY and SLOTS_PER_EPOCH.
C15_InclusionWindow ==
    last_call.result # "none" =>
        /\ last_call.window.result = "ok" <=>
               /\ last_call.window.attestation_slot
                      + last_call.window.min_attestation_inclusion_delay
                      <= last_call.window.state_slot
               /\ last_call.window.state_slot
                      <= last_call.window.attestation_slot
                             + last_call.window.slots_per_epoch
        /\ last_call.result = "accepted" =>
               /\ last_call.data.slot + MIN_ATTESTATION_INCLUSION_DELAY
                      <= last_call.pre_state.slot
               /\ last_call.pre_state.slot <= last_call.data.slot + SLOTS_PER_EPOCH
        /\ last_call.at = "inclusion delay" <=>
               last_call.serenity = "validate_attestation_slot"

\* both ends of the window and both sides of it have been tried, and the
\* fast state machine has refused an attestation for its slot
C15_Witness ==
    /\ last_call.result = "rejected"
    /\ last_call.at = "inclusion delay"
    /\ last_call.window.result = "ok"
    /\ last_call.window.state_slot
           = last_call.window.attestation_slot + last_call.window.slots_per_epoch
    /\ last_call.window.min_attestation_inclusion_delay > 0

\* the entry process_attestation makes of the attestation of the last call
PendingOfLastCall ==
    [data |-> last_call.data,
     aggregation_bits |->
         [k \in 1..Len(get_beacon_committee(last_call.pre_ctx, last_call.data.slot,
                                            last_call.data.index)) |-> TRUE],
     inclusion_delay |-> last_call.pre_state.slot - last_call.data.slot,
     proposer_index |->
         get_beacon_proposer(last_call.pre_ctx, last_call.pre_state.slot)]

\* C16: an accepted attestation has the current justified checkpoint, epoch
\* and root, as its source when its target epoch is the current epoch and
\* the previous justified checkpoint when it is the previous epoch, and is
\* appended to the current-epoch pool in the first case and to the
\* previous-epoch pool in the second; the serenity validation passes no
\* other source either.
C16_SourceIsJustifiedCheckpoint ==
    /\ last_call.result = "accepted" =>
           IF last_call.data.target.epoch = StateCurrentEpoch(last_call.pre_state)
           THEN /\ last_call.data.source
                       = last_call.pre_state.current_justified_checkpoint
                /\ state.current_epoch_attestations
                       = Append(last_call.pre_state.current_epoch_attestations,
                                PendingOfLastCall)
                /\ state.previous_epoch_attestations
                       = last_call.pre_state.previous_epoch_attestations
           ELSE /\ last_call.data.target.epoch
                       = StatePreviousEpoch(last_call.pre_state)
                /\ last_call.data.source
                       = last_call.pre_state.previous_justified_checkpoint
                /\ state.previous_epoch_attestations
                       = Append(last_call.pre_state.previous_epoch_attestations,
                                PendingOfLastCall)
                /\ state.current_epoch_attestations
                       = last_call.pre_state.current_epoch_attestations
    /\ (last_call.result # "none" /\ last_call.serenity = "ok") =>
           last_call.data.source
               = (IF last_call.data.target.epoch
                         = StateCurrentEpoch(last_call.pre_state)
                  THEN last_call.pre_state.current_justified_checkpoint
                  ELSE last_call.pre_state.previous_justified_checkpoint)
    /\ (last_call.result # "none"
        /\ last_call.at \in {"source == current_justified_checkpoint",
                             "source == previous_justified_checkpoint"}) <=>
           (last_call.result # "none" /\ last_call.serenity = "_validate_checkpoint")

\* an attestation of the previous epoch is accepted where the two justified
\* checkpoints differ
C16_Witness ==
    /\ last_call.result = "accepted"
    /\ last_call.data.target.epoch < StateCurrentEpoch(last_call.pre_state)
    /\ last_call.pre_state.previous_justified_checkpoint.epoch
           < last_call.pre_state.current_justified_checkpoint.epoch
    /\ Len(state.previous_epoch_attestations) = 1

\* the waiter slot the next call of ensure_nodes_present takes
NextCaller == CHOOSE w \in Waiters : FreeSlot(w) /\ \A v \in Waiters : v < w => ~FreeSlot(v)

\* what a call of ensure_nodes_present by waiter w did to the queue q (q2
\* after the call) it selected and to the other queue (other, other2 after):
\* only hashes asked for, absent from the store and not in q went to
\* queue.add, and nothing else in either queue changed
AddedOnlyUnrequested(req, q, q2, other, other2) ==
    /\ other2 = other
    /\ q.tasks \subseteq q2.tasks
    /\ q.pending \subseteq q2.pending
    /\ (q2.tasks \ q.tasks) = (q2.pending \ q.pending)
    /\ \A h \in (q2.tasks \ q.tasks) \cup (q2.pending \ q.pending) \cup req.toadd :
           /\ h \in req.hashes
           /\ _is_node_missing(db, h)
           /\ ~InQueue(q, h)

\* C20: ensure_nodes_present hands to the queue it selects only hashes absent
\* from the store and not already in that queue and leaves the other queue as
\* it was; with every hash in the store it returns 0 at once, without
\* queueing, registering an event or waiting.
C20_EnqueuesOnlyUnrequested ==
    [][ncalls' = ncalls + 1 =>
          \A w \in {NextCaller} :
             /\ IF wreq'[w].urgent
                THEN AddedOnlyUnrequested(wreq'[w], node_tasks, node_tasks',
                                          maybe_useful_nodes, maybe_useful_nodes')
                ELSE AddedOnlyUnrequested(wreq'[w], maybe_useful_nodes,
                                          maybe_useful_nodes', node_tasks,
                                          node_tasks')
             /\ (\A h \in wreq'[w].hashes : _is_node_present(db, h)) =>
                    /\ wpc'[w] = "returned"
                    /\ wresult'[w] = 0
                    /\ node_tasks' = node_tasks
                    /\ maybe_useful_nodes' = maybe_useful_nodes
                    /\ new_data_events' = new_data_events
                    /\ event_set' = event_set
                    /\ db' = db]_vars

\* a predictive call for both hashes, one of them stored by an earlier call:
\* only the other is in the predictive queue, the urgent queue is as the
\* earlier call left it
C20_Witness ==
    /\ ncalls = 2
    /\ wpc[1] = "waiting"
    /\ ~wreq[1].urgent
    /\ wreq[1].hashes = {1, 2}
    /\ Cardinality(wreq[1].missing) = 1
    /\ maybe_useful_nodes.tasks = wreq[1].missing
    /\ node_tasks.tasks = {}

(***************************************************************************)
(* download_account and download_storage: probe the trie, fetch the node   *)
(* that is missing, try again.                                             *)
(***************************************************************************)
\* `range(64)`, scaled
DownloadAttempts == 3

NoHash == 1 - 1

\* the node hashes a lookup visits from the root hash to the key
TriePaths == {<<1>>, <<1, 2>>, <<2, 1>>}

\* snapshot[key]: the hash MissingTrieNode names, the first node of the path
\* that is not in the store; NoHash when the lookup succeeds
missing_node_hash(store, path) ==
    IF \A k \in 1..Len(path) : _is_node_present(store, path[k]) THEN NoHash
    ELSE path[CHOOSE k \in 1..Len(path) :
                 /\ _is_node_missing(store, path[k])
                 /\ \A j \in 1..(k - 1) : _is_node_present(store, path[j])]

\* the value the lookup returns: the body of the last node of the path
account_rlp(store, path) ==
    (CHOOSE n \in store : n[1] = path[Len(path)])[2]

\* the caller of download_account / download_storage awaits in the first waiter slot
DownloadWaiter == CHOOSE w \in Waiters : \A v \in Waiters : w <= v

AttemptsLeftOrLast(n) == n <= DownloadAttempts

\* `for num_downloads_required in range(64)` has the value n
AttemptsLeft(n) == n < DownloadAttempts

\* one pass of the loop body with loop variable n, up to its await, its
\* return, or the raise of the loop's else branch
DownloadIteration(kind, path, urgent, n) ==
    IF ~AttemptsLeft(n)
    THEN /\ dpc' = "raised"
         /\ dresult' = [dresult EXCEPT !.outcome = "raised"]
         /\ UNCHANGED <<num_downloads_required, dprobes, dcalls>>
         /\ UNCHANGED dlVars
    ELSE \E h \in {missing_node_hash(db, path)} :
         /\ num_downloads_required' = n
         /\ dprobes' = Append(dprobes, h)
         /\ IF h = NoHash
            THEN /\ dpc' = "returned"
                 /\ dresult' =
                        [outcome |-> "returned",
                         count |-> n,
                         account_rlp |-> IF kind = "account"
                                         THEN account_rlp(db, path) ELSE NoHash]
                 /\ UNCHANGED dcalls
                 /\ UNCHANGED dlVars
            ELSE /\ dpc' = "awaiting"
                 /\ dcalls' = Append(dcalls, {h})
                 /\ ensure_nodes_present(DownloadWaiter, {h}, urgent)
                 /\ UNCHANGED <<dresult, ncalls>>

\* download_account(account_hash, root_hash, urgent) and
\* download_storage(storage_key, storage_root_hash, account, urgent) are called
Download(kind, path, urgent) ==
    /\ dpc = "idle"
    /\ dreq' = [kind |-> kind, path |-> path, urgent |-> urgent]
    /\ DownloadIteration(kind, path, urgent, 0)
    /\ UNCHANGED notBeam

\* ensure_nodes_present has returned to the loop, which runs on at once
DownloadResume ==
    /\ dpc = "awaiting"
    /\ wpc[DownloadWaiter] = "returned"
    /\ DownloadIteration(dreq.kind, dreq.path, dreq.urgent,
                         num_downloads_required + 1)
    /\ UNCHANGED dreq
    /\ UNCHANGED notBeam

\* the caller is suspended: other coroutines may run. (The timeout of the
\* predictive queue's get lowers min_predictive_peers only once that is
\* positive while nothing is pending, which one download alone never brings
\* about; with min_predictive_peers = 0 it changes nothing.)
DownloadYielded == ~(dpc = "awaiting" /\ wpc[DownloadWaiter] = "returned")

NextDownload ==
    \/ \E kind \in {"account", "storage"}, path \in TriePaths, urgent \in BOOLEAN :
          Download(kind, path, urgent)
    \/ DownloadResume
    \/ DownloadYielded /\ \E p \in Peers : RegisterPeer(p)
    \/ DownloadYielded /\ \E w \in Waiters : QueueAddResume(w)
    \/ DownloadYielded /\ \E w \in Waiters : TimeoutElapses(w)
    \/ DownloadYielded /\ \E w \in Waiters : NewDataWakes(w)
    \/ DownloadYielded /\ UrgentGet
    \/ DownloadYielded /\ UrgentDispatch
    \/ DownloadYielded /\ \E p \in Peers, raw \in RawReplies, error \in BOOLEAN :
          UrgentStoreNodes(p, raw, error)
    \/ DownloadYielded /\ UrgentNextResult
    \/ DownloadYielded /\ \E p \in Peers : UrgentTaskCancelled(p)
    \/ DownloadYielded /\ UrgentComplete
    \/ DownloadYielded /\ ReduceSpreadFactor
    \/ DownloadYielded /\ PredictiveGet
    \/ DownloadYielded /\ \E p \in Peers : PredictivePeasant(p)
    \/ DownloadYielded /\ PredictivePeasantTimeout
    \/ DownloadYielded /\ \E p \in Peers, raw \in RawReplies, error \in BOOLEAN :
          PredictiveStoreNodes(p, raw, error)

SpecDownload == InitDL /\ [][NextDownload]_vars

\* the probes so far that hit a missing node
MissedProbes == {k \in 1..Len(dprobes) : dprobes[k] # NoHash}

\* C21: download_account and download_storage probe at most DownloadAttempts
\* (64) times; a probe that hits a missing node calls ensure_nodes_present
\* for exactly that node and the loop retries; the first successful probe
\* returns the number of missing-node rounds before it; after
\* DownloadAttempts missing-node rounds the call raises.
C21_BoundedProbes ==
    /\ Len(dprobes) <= DownloadAttempts
    /\ Len(dcalls) = Cardinality(MissedProbes)
    /\ \A k \in 1..Len(dcalls) : k \in MissedProbes /\ dcalls[k] = {dprobes[k]}
    /\ dpc = "awaiting" =>
           /\ Len(dprobes) = num_downloads_required + 1
           /\ wreq[DownloadWaiter].hashes = {dprobes[Len(dprobes)]}
           /\ wreq[DownloadWaiter].urgent = dreq.urgent
    /\ dpc = "returned" =>
           /\ dprobes[Len(dprobes)] = NoHash
           /\ MissedProbes = 1..(Len(dprobes) - 1)
           /\ dresult.count = Len(dcalls)
           /\ dresult.count < DownloadAttempts
           /\ missing_node_hash(db, dreq.path) = NoHash
    /\ dpc = "raised" =>
           /\ MissedProbes = 1..DownloadAttempts
           /\ Len(dcalls) = DownloadAttempts
           /\ wpc[DownloadWaiter] = "returned"
    /\ dpc \in {"idle", "awaiting", "returned", "raised"}

\* both nodes of a two-node path were fetched, one per round, and the third
\* probe found the account
C21_Witness ==
    /\ dpc = "returned"
    /\ dreq.kind = "account"
    /\ dresult.count = 2
    /\ dresult.account_rlp # NoHash
    /\ Len(dreq.path) = 2
    /\ dcalls = <<{dreq.path[1]}, {dreq.path[2]}>>

(***************************************************************************)
(* Deposits                                                                *)
(***************************************************************************)
\* the deposit due on a state: the one its eth1 data counts next
DueDeposits(s) ==
    {k \in DepositKinds :
        /\ s.eth1_data.deposit_count > s.eth1_deposit_index
        /\ DepositRoot(Deposit(k), s.eth1_deposit_index) = s.eth1_data.deposit_root}

\* the validator record of a new deposit
DepositedValidator(data) ==
    [pubkey |-> data.pubkey,
     activation_eligibility_epoch |-> FAR_FUTURE_EPOCH,
     activation_epoch |-> FAR_FUTURE_EPOCH,
     exit_epoch |-> FAR_FUTURE_EPOCH,
     withdrawable_epoch |-> FAR_FUTURE_EPOCH,
     slashed |-> FALSE,
     effective_balance |->
         Min(data.amount - (data.amount % EFFECTIVE_BALANCE_INCREMENT),
             MAX_EFFECTIVE_BALANCE)]

\* what the claim says of a deposit with data `data` applied to the run a
DepositEffect(a, data) ==
    /\ state.eth1_deposit_index = a.state.eth1_deposit_index + 1
    /\ IF data.pubkey \notin DOMAIN a.ctx.pubkey2index
       THEN /\ state.validators = Append(a.state.validators, DepositedValidator(data))
            /\ state.balances = Append(a.state.balances, data.amount)
            /\ DOMAIN epochs_ctx.pubkey2index
                   = DOMAIN a.ctx.pubkey2index \cup {data.pubkey}
            /\ \A key \in DOMAIN a.ctx.pubkey2index :
                   epochs_ctx.pubkey2index[key] = a.ctx.pubkey2index[key]
            /\ epochs_ctx.pubkey2index[data.pubkey] = Len(a.state.validators)
            /\ epochs_ctx.index2pubkey = Append(a.ctx.index2pubkey, data.pubkey)
       ELSE /\ state.validators = a.state.validators
            /\ a.ctx.pubkey2index[data.pubkey] < Len(a.state.balances)
            /\ state.balances =
                   [a.state.balances EXCEPT
                       ![a.ctx.pubkey2index[data.pubkey] + 1] = @ + data.amount]
            /\ epochs_ctx.pubkey2index = a.ctx.pubkey2index
            /\ epochs_ctx.index2pubkey = a.ctx.index2pubkey

\* the last call handed process_deposit a deposit with a valid proof that
\* is signed or for a key the context knows, in a block with no operation
\* that touches validators or balances
ValidDepositReached(a) ==
    /\ last_call.result # "none"
    /\ last_call.operations \in {"none", "attestation"}
    /\ a.ok
    /\ DueDeposits(a.state) \cap {"new", "top_up"} # {}
    /\ \/ /\ last_call.result = "accepted"
          /\ \E k \in 1..Len(last_call.done) : last_call.done[k] = "process_deposit"
       \/ /\ last_call.result = "rejected"
          /\ last_call.at = "state.balances[index]"

\* C22: a deposit with a valid proof and signature for a pubkey the context
\* does not know appends one validator (four FAR_FUTURE epochs, effective
\* balance min(amount - amount mod EFFECTIVE_BALANCE_INCREMENT,
\* MAX_EFFECTIVE_BALANCE)) and one balance equal to the amount and extends
\* both pubkey tables; one for a known pubkey only increases that validator's
\* balance; either way eth1_deposit_index advances by one.
C22_DepositAppendsOrTopsUp ==
    \A a \in {IF last_call.result = "none" THEN [ok |-> FALSE] ELSE AdvancedRun} :
        ValidDepositReached(a) =>
            /\ last_call.result = "accepted"
            /\ DepositEffect(a, Deposit(CHOOSE k \in DueDeposits(a.state) : TRUE).data)

(***************************************************************************)
(* Blocks that carry several kinds of operation                            *)
(***************************************************************************)
MaxOpsBlocks == 3

OpsChoices ==
    {[operations |-> o, deposits |-> "due", defect |-> "none", eth1 |-> "same"] :
        o \in {"none", "attestation", "proposer_slashing", "attester_slashing",
               "voluntary_exit", "both_slashings", "slashing_and_exit", "every"}}

OpsTransition ==
    /\ ntransitions < MaxOpsBlocks
    /\ \E skip \in 1..MaxSkip :
          \E advanced \in
                {process_slots([ok |-> TRUE, at |-> "", done |-> <<>>,
                                state |-> state, held |-> state, ctx |-> epochs_ctx],
                               state.slot + skip)} :
             \E choice \in OpsChoices :
                \E t \in {AfterSlots(advanced,
                                     SignedBlock(advanced, state.slot + skip, choice),
                                     TRUE)} :
                   /\ state' = IF t.ok THEN t.state ELSE t.held
                   /\ epochs_ctx' = t.ctx
                   /\ last_call' =
                          [result |-> IF t.ok THEN "accepted" ELSE "rejected",
                           at |-> t.at,
                           done |-> t.done,
                           pre_state |-> state,
                           pre_ctx |-> epochs_ctx,
                           slot |-> state.slot + skip,
                           operations |-> choice.operations]
    /\ ntransitions' = ntransitions + 1
    /\ UNCHANGED notBeacon

NextOps == OpsTransition

SpecOps == InitChain /\ [][NextOps]_vars

\* the place in the order of process_operations of the step a label of
\* `done` stands for; 0 for what comes before the operations
OperationRank(label) ==
    CASE label = "slash_validator" -> 1
      [] label \in {"current_epoch_attestations", "previous_epoch_attestations"} -> 3
      [] label \in {"process_deposit", "eth1_deposit_index"} -> 4
      [] label = "process_voluntary_exit" -> 5
      [] OTHER -> 0

SlashingsDone ==
    Cardinality({k \in 1..Len(last_call.done) : last_call.done[k] = "slash_validator"})

\* the validator with this index in the state the block of the last call
\* was applied to
ValidatorBeforeBlock(index) == AdvancedRun.state.validators[index + 1]

\* where a block fails whose deposit, which comes before the exits, fails
DepositFailures == {"is_valid_merkle_branch", "state.balances[index]"}

\* C23: the operations of a block run in the order proposer slashings,
\* attester slashings, attestations, deposits, voluntary exits, each checked
\* against the state the operations before it left: the exit of a validator
\* slashed earlier in the block is rejected as already initiated, and an
\* attester slashing does not slash again whom the block's proposer slashing
\* slashed.
C23_OperationsInOrder ==
    last_call.result # "none" =>
        /\ \A j \in 1..Len(last_call.done), k \in 1..Len(last_call.done) :
               j < k => OperationRank(last_call.done[j])
                            <= OperationRank(last_call.done[k])
        /\ (last_call.operations = "slashing_and_exit" /\ SlashingsDone = 1) =>
               /\ last_call.result = "rejected"
               /\ last_call.at \in {"exit_epoch == FAR_FUTURE_EPOCH"} \cup DepositFailures
        /\ (last_call.operations = "both_slashings"
            /\ last_call.result = "accepted") =>
               /\ SlashingsDone = 2
               /\ state.validators[2].slashed /\ state.validators[3].slashed
               /\ ~state.validators[1].slashed
        /\ (last_call.operations = "every" /\ last_call.result = "accepted") =>
               /\ SlashingsDone = 2
               /\ \E k \in 1..Len(last_call.done) :
                      OperationRank(last_call.done[k]) = 3
               /\ last_call.done[Len(last_call.done)] = "process_voluntary_exit"

\* the exit stands against the state before the block (the validator is
\* active long enough and has not exited) and falls to the slashing the same
\* block carries before it
C23_Witness ==
    /\ last_call.result = "rejected"
    /\ last_call.operations = "slashing_and_exit"
    /\ last_call.at = "exit_epoch == FAR_FUTURE_EPOCH"
    /\ SlashingsDone = 1
    /\ ValidatorBeforeBlock(2).exit_epoch = FAR_FUTURE_EPOCH
    /\ compute_epoch_at_slot(last_call.slot)
           >= ValidatorBeforeBlock(2).activation_epoch + SHARD_COMMITTEE_PERIOD

(***************************************************************************)
(* Eth1 data votes and the deposits a block must carry                     *)
(***************************************************************************)
MaxEth1Blocks == 3

Eth1Choices ==
    {[operations |-> "none", deposits |-> d, defect |-> "none", eth1 |-> e] :
        d \in {"due", "all", "none", "wrong"},
        e \in {"same", "new", "many", "fewer"}}

Eth1Transition ==
    /\ ntransitions < MaxEth1Blocks
    /\ \E skip \in 1..MaxSkip :
          \E advanced \in
                {process_slots([ok |-> TRUE, at |-> "", done |-> <<>>,
                                state |-> state, held |-> state, ctx |-> epochs_ctx],
                               state.slot + skip)} :
             \E choice \in Eth1Choices :
                \E block \in {SignedBlock(advanced, state.slot + skip, choice)} :
                   \E t \in {AfterSlots(advanced, block, TRUE)} :
                      /\ state' = IF t.ok THEN t.state ELSE t.held
                      /\ epochs_ctx' = t.ctx
                      /\ last_call' =
                             [result |-> IF t.ok THEN "accepted" ELSE "rejected",
                              at |-> t.at,
                              done |-> t.done,
                              pre_state |-> state,
                              pre_ctx |-> epochs_ctx,
                              slot |-> state.slot + skip,
                              operations |-> choice.operations,
                              deposits |-> Len(block.message.body.deposits),
                              eth1_data |-> block.message.body.eth1_data]
    /\ ntransitions' = ntransitions + 1
    /\ UNCHANGED notBeacon

NextEth1 == Eth1Transition

SpecEth1 == InitChain /\ [][NextEth1]_vars

\* C24: a block is accepted only with min(MAX_DEPOSITS, eth1_data.deposit_count
\* - eth1_deposit_index) deposits, counted on the state its own eth1 vote
\* leaves; so eth1_deposit_index <= eth1_data.deposit_count after every
\* accepted block, also one that adopts new eth1 data.
C24_DepositCountMatches ==
    /\ state.eth1_deposit_index <= state.eth1_data.deposit_count
    /\ last_call.result = "accepted" =>
           /\ last_call.deposits =
                  Min(MAX_DEPOSITS,
                      state.eth1_data.deposit_count
                          - last_call.pre_state.eth1_deposit_index)
           /\ state.eth1_deposit_index
                  = last_call.pre_state.eth1_deposit_index + last_call.deposits
           /\ state.eth1_data \in {last_call.pre_state.eth1_data, last_call.eth1_data}

\* the block adopts eth1 data that count two more deposits and carries the
\* MAX_DEPOSITS of them the state after its vote asks for
C24_Witness ==
    /\ last_call.result = "accepted"
    /\ state.eth1_data # last_call.pre_state.eth1_data
    /\ state.eth1_data = last_call.eth1_data
    /\ last_call.pre_state.eth1_data.deposit_count
           = last_call.pre_state.eth1_deposit_index
    /\ state.eth1_data.deposit_count - last_call.pre_state.eth1_deposit_index
           > MAX_DEPOSITS
    /\ last_call.deposits = MAX_DEPOSITS

(***************************************************************************)
(* Peers that leave: deregister_peer                                       *)
(***************************************************************************)
\* deregister_peer, for a peer that waits in the rotation of the tracker
DeregisterPeer(p) ==
    /\ p \in rotation
    /\ num_peers' = num_peers - 1
    /\ rotation' = rotation \ {p}
    /\ UNCHANGED <<db, node_tasks, maybe_useful_nodes, new_data_events,
                   event_set, wpc, wreq, wresult, timed_out, upc, urgent_hashes,
                   utask, ures, done_order, nodes_returned, knights, ppc,
                   pred_hashes, ptask, prunning, queen, desired_knight_count,
                   spread_factor, min_predictive_peers, first_nonempty, ncalls>>
    /\ UNCHANGED notDL

NextPeers ==
    \/ NextDL
    \/ \E p \in Peers : DeregisterPeer(p)

SpecPeers == InitDL /\ [][NextPeers]_vars

\* C25: in every state of the downloader
\* 0 <= spread_factor <= max(0, num_peers - 1 - min_predictive_peers).
C25_SpreadFactorBounded ==
    /\ 0 <= spread_factor
    /\ spread_factor <= _max_spread_beam_factor

\* C26: in every state of the downloader
\* 0 <= min_predictive_peers <= num_peers div 2.
C26_PredictivePeersBounded ==
    /\ 0 <= min_predictive_peers
    /\ min_predictive_peers <= num_peers \div 2

(***************************************************************************)
(* The spread factor and the tracker's desired knight count                *)
(***************************************************************************)
\* the urgent side of the downloader: urgent callers, the urgent pipeline and
\* the periodic task; the predictive pipeline never touches the spread factor
NextSpread ==
    \/ \E p \in Peers : RegisterPeer(p)
    \/ \E w \in Waiters, H \in RequestSets : EnsureNodesPresent(w, H, TRUE)
    \/ \E w \in Waiters : QueueAddResume(w)
    \/ \E w \in Waiters : TimeoutElapses(w)
    \/ \E w \in Waiters : NewDataWakes(w)
    \/ UrgentGet
    \/ UrgentDispatch
    \/ \E p \in Peers, raw \in RawReplies, error \in BOOLEAN :
          UrgentStoreNodes(p, raw, error)
    \/ UrgentNextResult
    \/ \E p \in Peers : UrgentTaskCancelled(p)
    \/ UrgentComplete
    \/ ReduceSpreadFactor

\* the event loop and the clock take every step that stays possible; the
\* periodic task wakes every _reduce_spread_factor_interval
FairnessSpread ==
    /\ \A w \in Waiters : WF_vars(QueueAddResume(w))
    /\ \A w \in Waiters : WF_vars(TimeoutElapses(w))
    /\ \A w \in Waiters : WF_vars(NewDataWakes(w))
    /\ WF_vars(UrgentGet)
    /\ WF_vars(UrgentDispatch)
    /\ \A p \in Peers :
         WF_vars(\E raw \in RawReplies, error \in BOOLEAN :
                    UrgentStoreNodes(p, raw, error))
    /\ WF_vars(UrgentNextResult)
    /\ \A p \in Peers : WF_vars(UrgentTaskCancelled(p))
    /\ WF_vars(UrgentComplete)
    /\ WF_vars(ReduceSpreadFactor)

SpecSpreadFair == InitDL /\ [][NextSpread]_vars /\ FairnessSpread

\* no urgent request raises the factor in this step
NoSlowUrgentRequest == spread_factor' <= spread_factor

\* C27: once no urgent request is slow any more the periodic task lowers
\* spread_factor by exactly 1 per tick, never below 0, until it is 0 for good;
\* every change of spread_factor is passed on with set_desired_knight_count, so
\* the desired knight count equals spread_factor between any two steps.
C27_SpreadFactorSettles ==
    /\ [](desired_knight_count = spread_factor /\ spread_factor >= 0)
    /\ [][spread_factor' < spread_factor => spread_factor' = spread_factor - 1]_vars
    /\ (<>[][NoSlowUrgentRequest]_vars => <>[](spread_factor = 0))

\* knights were popped while the factor was raised, and the periodic task has
\* brought it back to 0 since
C27_Witness ==
    /\ knights # {}
    /\ spread_factor = 0
    /\ desired_knight_count = 0

(***************************************************************************)
(* _store_nodes: what it writes and whom it wakes                          *)
(***************************************************************************)
\* this step is the rest of _store_nodes of an urgent / a predictive request
UrgentStored == \E p \in Peers : utask[p] = "running" /\ utask'[p] = "done"

PredictiveStored == \E p \in Peers : p \in prunning /\ p \notin prunning'

AllEventsSet == \A w \in new_data_events : event_set'[w]

\* C28: _store_nodes writes only returned pairs whose hash the store lacks,
\* never overwriting a key, in one batch; it sets every registered new-data
\* event exactly when the request was urgent or something new was written,
\* with the write already in the store; a non-urgent response that adds
\* nothing sets no event.
C28_StoreWritesThenWakes ==
    [][/\ \A n \in db : n \in db'
       /\ \A n \in db' \ db : _is_node_missing(db, n[1])
       /\ db' # db => UrgentStored \/ PredictiveStored
       /\ \A p \in Peers :
             (utask[p] = "running" /\ utask'[p] = "done") =>
                 db' = db \cup {n \in ures'[p] : _is_node_missing(db, n[1])}
       /\ UrgentStored => AllEventsSet
       /\ PredictiveStored =>
             IF db' # db THEN AllEventsSet ELSE event_set' = event_set
       /\ \A w \in Waiters :
             (event_set'[w] /\ ~event_set[w]) =>
                 /\ w \in new_data_events
                 /\ UrgentStored \/ (PredictiveStored /\ db' # db)
      ]_vars

\* a waiter of a non-urgent call has been woken, and a node it waits for is
\* in the store for its re-scan
C28_Witness ==
    \E w \in Waiters :
        /\ wpc[w] = "waiting"
        /\ ~wreq[w].urgent
        /\ event_set[w]
        /\ wreq[w].remaining \cap StoredHashes # {}

(***************************************************************************)
(* The predictive pipeline and the hashes it pops                          *)
(***************************************************************************)
\* wait_for(pop_fastest_peasant) ends after TOO_LONG_PREDICTIVE_PEER_DELAY at
\* the latest, with a peer or without; a peer's request ends after its reply
\* timeout at the latest, and the spawned task then runs to its end
FairnessPredictive ==
    /\ WF_vars(PredictivePeasantTimeout \/ \E p \in Peers : PredictivePeasant(p))
    /\ \A p \in Peers :
         WF_vars(\E raw \in RawReplies, error \in BOOLEAN :
                    PredictiveStoreNodes(p, raw, error))

\* the downloader with one caller at a time
NextPredictive ==
    \/ \E p \in Peers : RegisterPeer(p)
    \/ \E H \in RequestSets, urgent \in BOOLEAN : EnsureNodesPresent(1, H, urgent)
    \/ QueueAddResume(1)
    \/ TimeoutElapses(1)
    \/ NewDataWakes(1)
    \/ UrgentGet
    \/ UrgentDispatch
    \/ \E p \in Peers, raw \in RawReplies, error \in BOOLEAN :
          UrgentStoreNodes(p, raw, error)
    \/ UrgentNextResult
    \/ \E p \in Peers : UrgentTaskCancelled(p)
    \/ UrgentComplete
    \/ ReduceSpreadFactor
    \/ PredictiveGet
    \/ PredictiveGetTimeout
    \/ \E p \in Peers : PredictivePeasant(p)
    \/ PredictivePeasantTimeout
    \/ \E p \in Peers, raw \in RawReplies, error \in BOOLEAN :
          PredictiveStoreNodes(p, raw, error)

SpecPredictiveFair == InitDL /\ [][NextPredictive]_vars /\ FairnessPredictive

\* the hashes of batches popped from the predictive queue and not yet completed
PoppedHashes == pred_hashes \cup UNION {ptask[p] : p \in prunning}

\* C29: no hash popped from the predictive queue is lost: it is held by the
\* pipeline or by one running request task until its batch is completed; a
\* peasant timeout completes the batch empty, putting all its hashes back to
\* pending; a request task is spawned and eventually completes its batch,
\* removing only hashes the store then holds and putting the rest back to
\* pending; the pipeline is back at the queue while the request is running.
C29_PoppedHashesReturn ==
    /\ [](/\ maybe_useful_nodes.pending \subseteq maybe_useful_nodes.tasks
          /\ maybe_useful_nodes.tasks \ maybe_useful_nodes.pending = PoppedHashes
          /\ \A p \in Peers : p \notin prunning => ptask[p] = {}
          /\ ppc = "get" => pred_hashes = {})
    /\ [][/\ \A h \in maybe_useful_nodes.tasks :
                h \in maybe_useful_nodes'.tasks \/ h \in {n[1] : n \in db'}
          /\ (ppc = "peasant" /\ ppc' = "get") =>
                IF prunning' = prunning
                THEN /\ pred_hashes \subseteq maybe_useful_nodes'.pending
                     /\ maybe_useful_nodes'.tasks = maybe_useful_nodes.tasks
                ELSE \E p \in Peers :
                        /\ prunning' = prunning \cup {p}
                        /\ ptask'[p] = pred_hashes
                        /\ maybe_useful_nodes' = maybe_useful_nodes
          /\ \A p \in Peers :
                (p \in prunning /\ p \notin prunning') =>
                    \A h \in ptask[p] :
                        \/ h \in maybe_useful_nodes'.pending
                        \/ h \notin maybe_useful_nodes'.tasks
                              /\ h \in {n[1] : n \in db'}
         ]_vars
    /\ (ppc = "peasant") ~> (ppc = "get")
    /\ \A p \in Peers : (p \in prunning) ~> (p \notin prunning)

\* the pipeline polls the queue again while the request it spawned is running
C29_Witness ==
    \E p \in Peers :
        /\ ppc = "get"
        /\ p \in prunning
        /\ ptask[p] # {}
        /\ ptask[p] \cap maybe_useful_nodes.pending = {}
        /\ ptask[p] \subseteq maybe_useful_nodes.tasks

(***************************************************************************)
(* Peers taken out of the rotation and given back                          *)
(***************************************************************************)
\* the urgent pipeline's loop and the tasks it started run to their end
FairnessUrgent ==
    /\ \A p \in Peers :
         WF_vars(\E raw \in RawReplies, error \in BOOLEAN :
                    UrgentStoreNodes(p, raw, error))
    /\ WF_vars(UrgentNextResult)
    /\ \A p \in Peers : WF_vars(UrgentTaskCancelled(p))
    /\ WF_vars(UrgentComplete)

SpecRotationFair ==
    InitDL /\ [][NextPredictive]_vars /\ FairnessUrgent /\ FairnessPredictive

\* C30: a peer popped by pop_knights or pop_fastest_peasant is out of the
\* rotation exactly while its batch runs and is inserted back by the step that
\* finishes the batch, whatever its request came to; no registered peer is
\* lost, and every popped peer is eventually back in the rotation.
C30_PoppedPeersReturn ==
    /\ [](/\ rotation \cap knights = {}
          /\ rotation \cap prunning = {}
          /\ knights \cap prunning = {}
          /\ queen \notin rotation \cup knights \cup prunning
          /\ Cardinality(Connected) = num_peers
          /\ \A p \in knights : utask[p] # "none"
          /\ upc \in {"get", "queen"} => knights = {})
    /\ [][\A p \in Peers :
            /\ (p \in rotation /\ p \notin rotation') =>
                   p \in knights' \cup prunning'
            /\ (p \in knights /\ p \notin knights') =>
                   /\ p \in rotation'
                   /\ upc = "cleanup" /\ upc' = "get"
                   /\ utask[p] \in {"done", "cancelled"}
            /\ (p \in prunning /\ p \notin prunning') => p \in rotation'
            /\ (p \notin rotation /\ p \in rotation') =>
                   p \in knights \cup prunning \/ p \notin Connected
         ]_vars
    /\ \A p \in Peers : (p \in knights) ~> (p \in rotation)
    /\ \A p \in Peers : (p \in prunning) ~> (p \in rotation)

\* only a non-urgent call was made and it found its node: a peasant was
\* popped, its request stored the node, and the peer is back in the rotation
C30_Witness ==
    /\ ncalls = 1
    /\ wpc[1] = "returned"
    /\ ~wreq[1].urgent
    /\ wresult[1] >= 1
    /\ prunning = {}
    /\ knights = {}
    /\ num_peers = Cardinality(Peers)
    /\ rotation = Peers \ {queen}

(***************************************************************************)
(* _request_nodes and penalize_queen                                       *)
(***************************************************************************)
MaxRequests == 2

\* what awaiting peer.eth_api.get_node_data comes to: a reply or an exception
RequestFailures == {"PeerConnectionLost", "BaseP2PError", "TimeoutError", "Exception"}

RequestOutcomes == {"reply", "CancelledError"} \cup RequestFailures

\* variant: a reply without nodes is not held against the peer
request_nodes_lenient(peer, raw, outcome) ==
    CASE outcome \in RequestFailures ->
             [nodes |-> _request_nodes(raw, TRUE),
              penalize_queen |-> <<peer>>, raised |-> "none"]
      [] outcome = "CancelledError" ->
             [nodes |-> {}, penalize_queen |-> <<peer>>, raised |-> "CancelledError"]
      [] OTHER ->
             [nodes |-> _request_nodes(raw, FALSE),
              penalize_queen |-> <<>>, raised |-> "none"]

\* _request_nodes with its calls of penalize_queen, in order, and what it raises
request_nodes(peer, raw, outcome) ==
    CASE outcome \in RequestFailures ->
             [nodes |-> _request_nodes(raw, TRUE),
              penalize_queen |-> <<peer>>, raised |-> "none"]
      [] outcome = "CancelledError" ->
             [nodes |-> {}, penalize_queen |-> <<peer>>, raised |-> "CancelledError"]
      [] OTHER ->
             [nodes |-> _request_nodes(raw, FALSE),
              penalize_queen |->
                  IF Cardinality(_request_nodes(raw, FALSE)) > 0
                  THEN <<>> ELSE <<peer>>,
              raised |-> "none"]

\* one call of _request_nodes; an exception comes without a reply
RequestNodes(peer, raw, outcome) ==
    /\ Len(requests) < MaxRequests
    /\ outcome # "reply" => raw = {}
    /\ \E r \in {request_nodes(peer, raw, outcome)} :
          requests' = Append(requests,
                             [peer |-> peer, raw |-> raw, outcome |-> outcome,
                              nodes |-> r.nodes,
                              penalize_queen |-> r.penalize_queen,
                              raised |-> r.raised])
    /\ UNCHANGED <<dlVars, shuffleVars, committeeVars, beaconVars, downloadVars>>

NextRequest ==
    \E peer \in Peers, raw \in RawReplies, outcome \in RequestOutcomes :
        RequestNodes(peer, raw, outcome)

SpecRequest == InitDL /\ [][NextRequest]_vars

\* a failed request, or a reply without one consistent node: penalized once,
\* ends as an empty response
FailedOrEmpty(r) ==
    /\ (r.outcome \in RequestFailures \/ (r.outcome = "reply" /\ r.nodes = {})) =>
           /\ r.penalize_queen = <<r.peer>>
           /\ r.nodes = {}
           /\ r.raised = "none"
    /\ (r.outcome = "reply" /\ r.nodes # {}) =>
           /\ r.penalize_queen = <<>>
           /\ r.raised = "none"
           /\ r.nodes = {n \in r.raw : keccak(n[2]) = n[1]}

\* C31: penalize_queen(peer) is called exactly once for each request that
\* fails or returns no node, never for one that returned a node, and a
\* cancelled request only propagates the cancellation, unpenalized.
C31_PenalizedOnFailureOnly ==
    \A i \in 1..Len(requests) :
        /\ FailedOrEmpty(requests[i])
        /\ requests[i].outcome = "CancelledError" =>
               /\ requests[i].raised = "CancelledError"
               /\ requests[i].penalize_queen = <<>>

\* C31 as amended: the same, but a cancelled request calls penalize_queen(peer)
\* once before it propagates the cancellation.
C31_PenalizedAlsoWhenCancelled ==
    \A i \in 1..Len(requests) :
        /\ FailedOrEmpty(requests[i])
        /\ requests[i].outcome = "CancelledError" =>
               /\ requests[i].raised = "CancelledError"
               /\ requests[i].penalize_queen = <<requests[i].peer>>

\* a request to a peer was cancelled, another to the same peer brought a node
C31_Witness ==
    /\ Len(requests) = 2
    /\ requests[1].outcome = "CancelledError"
    /\ requests[1].penalize_queen = <<requests[1].peer>>
    /\ requests[2].peer = requests[1].peer
    /\ requests[2].nodes # {}
    /\ requests[2].penalize_queen = <<>>

(***************************************************************************)
(* process_slots called on its own, between blocks                         *)
(***************************************************************************)
MaxSlotCalls == 3
MaxAhead == 4

\* process_slots(epochs_ctx, state, slot) called by a client of the module
ProcessSlots ==
    /\ ntransitions < MaxSlotCalls
    /\ \E ahead \in 0..MaxAhead :
          \E t \in {process_slots([ok |-> TRUE, at |-> "", done |-> <<>>,
                                   state |-> state, held |-> state,
                                   ctx |-> epochs_ctx],
                                  state.slot + ahead)} :
             /\ state' = IF t.ok THEN t.state ELSE t.held
             /\ epochs_ctx' = t.ctx
             /\ last_call' =
                    [result |-> IF t.ok THEN "accepted" ELSE "rejected",
                     at |-> t.at,
                     done |-> t.done,
                     pre_state |-> state,
                     pre_ctx |-> epochs_ctx,
                     slot |-> state.slot + ahead,
                     operations |-> "process_slots"]
    /\ ntransitions' = ntransitions + 1
    /\ UNCHANGED notBeacon

\* state_transition on a block with an attestation, one or two slots ahead
SlotsBlock ==
    /\ ntransitions < MaxSlotCalls
    /\ \E skip \in 1..MaxSkip :
          \E advanced \in
                {process_slots([ok |-> TRUE, at |-> "", done |-> <<>>,
                                state |-> state, held |-> state, ctx |-> epochs_ctx],
                               state.slot + skip)} :
             \E t \in {AfterSlots(advanced,
                                  SignedBlock(advanced, state.slot + skip,
                                              [operations |-> "attestation",
                                               deposits |-> "due",
                                               defect |-> "none",
                                               eth1 |-> "same"]),
                                  TRUE)} :
                /\ state' = IF t.ok THEN t.state ELSE t.held
                /\ epochs_ctx' = t.ctx
                /\ last_call' =
                       [result |-> IF t.ok THEN "accepted" ELSE "rejected",
                        at |-> t.at,
                        done |-> t.done,
                        pre_state |-> state,
                        pre_ctx |-> epochs_ctx,
                        slot |-> state.slot + skip,
                        operations |-> "attestation"]
    /\ ntransitions' = ntransitions + 1
    /\ UNCHANGED notBeacon

NextSlots == ProcessSlots \/ SlotsBlock

SpecSlots == InitChain /\ [][NextSlots]_vars

\* the slots s passed from slot a to slot b with (s + 1) mod SLOTS_PER_EPOCH = 0
Boundaries(a, b) == {s \in a..(b - 1) : (s + 1) % SLOTS_PER_EPOCH = 0}

\* how often the last call ran the epoch transition
EpochRuns ==
    Cardinality({k \in 1..Len(last_call.done) : last_call.done[k] = "process_epoch"})

\* C32: advancing slots runs the epoch transition once for every slot s passed
\* with (s + 1) mod SLOTS_PER_EPOCH = 0 and at no other slot, before the
\* rotation of that boundary; a rotation makes previous <- current,
\* current <- next and builds the next shuffling for current.epoch + 1 from
\* the state the epoch transition left; so current_shuffling.epoch is the
\* epoch of state.slot after the call if it was before.
C32_EpochAtBoundaries ==
    (/\ last_call.result = "accepted"
     /\ last_call.pre_ctx.current_shuffling.epoch
            = compute_epoch_at_slot(last_call.pre_state.slot)) =>
        /\ state.slot = last_call.slot
        /\ EpochRuns
               = Cardinality(Boundaries(last_call.pre_state.slot, last_call.slot))
        /\ epochs_ctx.current_shuffling.epoch = compute_epoch_at_slot(state.slot)
        /\ epochs_ctx.next_shuffling.epoch = epochs_ctx.current_shuffling.epoch + 1
        /\ EpochRuns = 0 =>
               /\ epochs_ctx.previous_shuffling = last_call.pre_ctx.previous_shuffling
               /\ epochs_ctx.current_shuffling = last_call.pre_ctx.current_shuffling
               /\ epochs_ctx.next_shuffling = last_call.pre_ctx.next_shuffling
        /\ EpochRuns = 1 =>
               /\ epochs_ctx.previous_shuffling = last_call.pre_ctx.current_shuffling
               /\ epochs_ctx.current_shuffling = last_call.pre_ctx.next_shuffling
        /\ EpochRuns = 2 =>
               epochs_ctx.previous_shuffling = last_call.pre_ctx.next_shuffling
        /\ (EpochRuns > 0 /\ last_call.operations = "process_slots") =>
               epochs_ctx.next_shuffling =
                   ShufflingEpoch(
                       get_seed(state, epochs_ctx.current_shuffling.epoch + 1,
                                DOMAIN_BEACON_ATTESTER),
                       IndicesBounded(state),
                       epochs_ctx.current_shuffling.epoch + 1)

\* one call of process_slots passed two epoch boundaries
C32_Witness ==
    /\ last_call.result = "accepted"
    /\ last_call.operations = "process_slots"
    /\ EpochRuns = 2
    /\ epochs_ctx.current_shuffling.epoch = compute_epoch_at_slot(state.slot)
    /\ epochs_ctx.current_shuffling.epoch
           = last_call.pre_ctx.current_shuffling.epoch + 2

(***************************************************************************)
(* Justification in the epoch transition: on the chain of one block per    *)
(* slot, and process_justification_and_finalization applied at the end of  *)
(* an epoch of that chain to target stakes around two thirds of the total  *)
(* active stake.                                                           *)
(***************************************************************************)
\* the last call was an accepted block whose slot opened an epoch, so that
\* process_slots ran the epoch transition once before it
EpochProcessed ==
    /\ last_call.result = "accepted"
    /\ (last_call.pre_state.slot + 1) % SLOTS_PER_EPOCH = 0
    /\ \E k \in 1..Len(last_call.done) : last_call.done[k] = "process_epoch"

\* the run process_epoch of the last call was given: the state before the
\* call after _process_slot
EpochEntry ==
    _process_slot([ok |-> TRUE, at |-> "", done |-> <<>>,
                   state |-> last_call.pre_state, held |-> last_call.pre_state,
                   ctx |-> last_call.pre_ctx])

\* target stakes at, next to and away from two thirds of the total
JustifyStakes(total) ==
    {EFFECTIVE_BALANCE_INCREMENT, (total * 2) \div 3 - 1, (total * 2) \div 3,
     (total * 2) \div 3 + 1, total}

\* process_justification_and_finalization on the state the last slot of an
\* epoch leaves, with the EpochProcess of that state but for the two target
\* stakes
JustifyEpoch ==
    /\ ntransitions < MaxChain
    /\ (state.slot + 1) % SLOTS_PER_EPOCH = 0
    /\ \E a \in {_process_slot([ok |-> TRUE, at |-> "", done |-> <<>>,
                                state |-> state, held |-> state,
                                ctx |-> epochs_ctx])} :
       \E prepared \in {prepare_epoch_process_state(a.ctx, a.state)} :
       \E prev_target \in JustifyStakes(prepared.total_active_stake) :
       \E curr_target \in JustifyStakes(prepared.total_active_stake) :
       \E process \in
             {[prepared EXCEPT
                  !.prev_epoch_unslashed_stake.target_stake = prev_target,
                  !.curr_epoch_unslashed_target_stake = curr_target]} :
       \E justified \in {process_justification_and_finalization(process, a.state)} :
          /\ prepared.ok
          /\ state' = IF justified.ok THEN justified.state ELSE state
          /\ last_call' =
                 [result |-> IF justified.ok THEN "justified" ELSE "raised",
                  at |-> "process_justification_and_finalization",
                  done |-> <<>>,
                  pre_state |-> a.state,
                  pre_ctx |-> epochs_ctx,
                  process |-> process]
    /\ ntransitions' = MaxChain
    /\ UNCHANGED <<epochs_ctx, notBeacon>>

NextJustify == ChainTransition \/ JustifyEpoch

SpecJustify == InitChain /\ [][NextJustify]_vars

TwoThirds(stake, total) == stake * 3 >= total * 2

StartCheckpoint(s, epoch) ==
    [epoch |-> epoch,
     root |-> get_block_root_at_slot(s, compute_start_slot_at_epoch(epoch))]

\* what process_justification_and_finalization makes of the bits and the
\* justified checkpoints of old with the stakes of process
JustifiedAsStated(old, process, new) ==
    LET prev == TwoThirds(process.prev_epoch_unslashed_stake.target_stake,
                          process.total_active_stake)
        curr == TwoThirds(process.curr_epoch_unslashed_target_stake,
                          process.total_active_stake)
    IN  IF process.current_epoch <= GENESIS_EPOCH + 1
        THEN /\ new.justification_bits = old.justification_bits
             /\ new.previous_justified_checkpoint = old.previous_justified_checkpoint
             /\ new.current_justified_checkpoint = old.current_justified_checkpoint
             /\ new.finalized_checkpoint = old.finalized_checkpoint
        ELSE /\ new.justification_bits[3] = old.justification_bits[2]
             /\ new.justification_bits[2] = old.justification_bits[1]
             /\ new.justification_bits[1] = (old.justification_bits[0] \/ prev)
             /\ new.justification_bits[0] = curr
             /\ new.previous_justified_checkpoint = old.current_justified_checkpoint
             /\ new.current_justified_checkpoint =
                    IF curr THEN StartCheckpoint(old, process.current_epoch)
                    ELSE IF prev THEN StartCheckpoint(old, process.prev_epoch)
                    ELSE old.current_justified_checkpoint

\* C33: an epoch transition with current epoch > GENESIS_EPOCH + 1 shifts the
\* justification bits by one (the oldest dropped, bit 0 cleared); it raises
\* bit 1 and makes (previous_epoch, block root at its start) the
\* current-justified checkpoint exactly when the previous epoch's unslashed
\* target stake * 3 >= total active stake * 2, and raises bit 0 and makes
\* (current_epoch, block root at its start) the current-justified checkpoint
\* exactly when the current epoch's unslashed target stake * 3 >= total
\* active stake * 2, the current epoch winning when both hold; with current
\* epoch <= GENESIS_EPOCH + 1 no checkpoint and no bit changes.
C33_JustifiedAtTwoThirds ==
    /\ EpochProcessed =>
           \A a \in {EpochEntry} :
               JustifiedAsStated(a.state,
                                 prepare_epoch_process_state(a.ctx, a.state), state)
    /\ last_call.result = "justified" =>
           JustifiedAsStated(last_call.pre_state, last_call.process, state)
    /\ last_call.result # "raised"

\* both epochs were justified by exactly two thirds of the stake, neither
\* bit having been raised before, and the current epoch is the justified one
C33_Witness ==
    /\ last_call.result = "justified"
    /\ last_call.process.current_epoch > GENESIS_EPOCH + 1
    /\ last_call.process.prev_epoch_unslashed_stake.target_stake * 3
           = last_call.process.total_active_stake * 2
    /\ last_call.process.curr_epoch_unslashed_target_stake * 3
           = last_call.process.total_active_stake * 2
    /\ ~last_call.pre_state.justification_bits[0]
    /\ ~last_call.pre_state.justification_bits[1]
    /\ state.justification_bits[0]
    /\ state.justification_bits[1]
    /\ state.current_justified_checkpoint.epoch = last_call.process.current_epoch

\* a block's epoch transition justified the previous epoch by exactly two
\* thirds of the stake
C33_WitnessOnChain ==
    /\ EpochProcessed
    /\ \A a \in {EpochEntry} :
       \A process \in {prepare_epoch_process_state(a.ctx, a.state)} :
           /\ process.current_epoch > GENESIS_EPOCH + 1
           /\ process.prev_epoch_unslashed_stake.target_stake * 3
                  = process.total_active_stake * 2
           /\ ~a.state.justification_bits[0]
           /\ state.justification_bits[1]
           /\ state.current_justified_checkpoint.epoch = process.prev_epoch

(***************************************************************************)
(* The exit queue: a registry of more validators than the churn limit,     *)
(* some of them at the ejection balance, on which validators leave by a    *)
(* voluntary exit, by being slashed, or by ejection in the epoch           *)
(* transition.                                                             *)
(***************************************************************************)
RegistryValidators == 6
MaxRegistrySteps == 6

\* the validators (by index) that start with an effective balance of
\* EJECTION_BALANCE
LowBalanceSets == {{}, {5}, {1, 2, 3, 4, 5}, {0, 1, 2, 3, 4, 5}}

RegistryState(low) ==
    [GenesisState("none") EXCEPT
        !.eth1_data.deposit_count = RegistryValidators,
        !.eth1_deposit_index = RegistryValidators,
        !.validators =
            [k \in 1..RegistryValidators |->
                [pubkey |-> k,
                 effective_balance |-> IF (k - 1) \in low THEN EJECTION_BALANCE
                                       ELSE MAX_EFFECTIVE_BALANCE,
                 slashed |-> FALSE,
                 activation_eligibility_epoch |-> GENESIS_EPOCH,
                 activation_epoch |-> GENESIS_EPOCH,
                 exit_epoch |-> FAR_FUTURE_EPOCH,
                 withdrawable_epoch |-> FAR_FUTURE_EPOCH]],
        !.balances =
            [k \in 1..RegistryValidators |->
                IF (k - 1) \in low THEN EJECTION_BALANCE ELSE MAX_EFFECTIVE_BALANCE]]

InitExits ==
    /\ \E low \in LowBalanceSets : state = RegistryState(low)
    /\ epochs_ctx = load_state(state)
    /\ last_call = [result |-> "none", at |-> "", done |-> <<>>,
                    pre_state |-> state, pre_ctx |-> epochs_ctx,
                    operations |-> "none", index |-> 0]
    /\ ntransitions = 0
    /\ DownloaderIdle
    /\ ShuffleIdle
    /\ CommitteeIdle

\* the first of the validators that have not left
InLine(s) ==
    LET staying == {i \in 0..(Len(s.validators) - 1) :
                       s.validators[i + 1].exit_epoch = FAR_FUTURE_EPOCH}
    IN  {i \in staying : \A j \in staying : i <= j}

RegistryRun ==
    [ok |-> TRUE, at |-> "", done |-> <<>>, state |-> state, held |-> state,
     ctx |-> epochs_ctx]

RegistryCall(t, operation, index) ==
    /\ state' = IF t.ok THEN t.state ELSE t.held
    /\ epochs_ctx' = t.ctx
    /\ last_call' = [result |-> IF t.ok THEN "accepted" ELSE "rejected",
                     at |-> t.at,
                     done |-> t.done,
                     pre_state |-> state,
                     pre_ctx |-> epochs_ctx,
                     operations |-> operation,
                     index |-> index]
    /\ ntransitions' = ntransitions + 1
    /\ UNCHANGED notBeacon

\* process_voluntary_exit on an exit signed by the validator
ExitVoluntarily ==
    /\ ntransitions < MaxRegistrySteps
    /\ \E i \in InLine(state) :
       \E message \in {[epoch |-> epochs_ctx.current_shuffling.epoch,
                        validator_index |-> i]} :
          RegistryCall(
              process_voluntary_exit(
                  RegistryRun,
                  [message |-> message,
                   signature |->
                       Sign(<<state.validators[i + 1].pubkey>>,
                            compute_signing_root(<<message.epoch, i>>,
                                                 DOMAIN_VOLUNTARY_EXIT))]),
              "voluntary_exit", i)

\* slash_validator on a validator a slashing found slashable
ExitSlashed ==
    /\ ntransitions < MaxRegistrySteps
    /\ \E i \in InLine(state) :
          /\ is_slashable_validator(state.validators[i + 1],
                                    epochs_ctx.current_shuffling.epoch)
          /\ RegistryCall(slash_validator(RegistryRun, i), "slash_validator", i)

\* process_slots to the first slot of the next epoch
ExitEpoch ==
    /\ ntransitions < MaxRegistrySteps
    /\ RegistryCall(
           process_slots(RegistryRun,
                         compute_start_slot_at_epoch(
                             compute_epoch_at_slot(state.slot) + 1)),
           "process_slots", 0)

NextExits == ExitVoluntarily \/ ExitSlashed \/ ExitEpoch

SpecExits == InitExits /\ [][NextExits]_vars

\* the validators of s with exit epoch e
Leaving(s, e) ==
    {i \in 1..Len(s.validators) : s.validators[i].exit_epoch = e}

ExitEpochs(s) ==
    {s.validators[i].exit_epoch : i \in 1..Len(s.validators)} \ {FAR_FUTURE_EPOCH}

\* the validators the last call gave an exit epoch
NewlyLeaving ==
    {i \in 1..Len(state.validators) :
        /\ last_call.pre_state.validators[i].exit_epoch = FAR_FUTURE_EPOCH
        /\ state.validators[i].exit_epoch # FAR_FUTURE_EPOCH}

\* C34: for each epoch e other than FAR_FUTURE_EPOCH at most churn limit
\* (max(MIN_PER_EPOCH_CHURN_LIMIT, active validators / CHURN_LIMIT_QUOTIENT))
\* validators have exit_epoch = e, after any mix of voluntary exits,
\* slashings and ejections; each new exit is queued at the greatest exit
\* epoch assigned before the call (or current epoch + 1 + MAX_SEED_LOOKAHEAD
\* if that is greater) or later, and at the next epoch only when the one
\* before it is full.
C34_ExitsWithinChurnLimit ==
    /\ \A e \in ExitEpochs(state) :
           Cardinality(Leaving(state, e))
               <= get_churn_limit(Len(epochs_ctx.current_shuffling.active_indices))
    /\ \A i \in NewlyLeaving :
       \A limit \in {get_churn_limit(
                         Len(last_call.pre_ctx.current_shuffling.active_indices))} :
       \A first \in {SetMax(ExitEpochs(last_call.pre_state)
                            \cup {compute_activation_exit_epoch(
                                      last_call.pre_ctx.current_shuffling.epoch)})} :
          /\ state.validators[i].exit_epoch >= first
          /\ state.validators[i].withdrawable_epoch
                 >= state.validators[i].exit_epoch
                        + MIN_VALIDATOR_WITHDRAWABILITY_DELAY
          /\ \A e \in first..(state.validators[i].exit_epoch - 1) :
                 Cardinality(Leaving(state, e)) = limit

\* the queue was full at one epoch and a validator that left by each of the
\* three ways waits at the next
C34_Witness ==
    \E e \in ExitEpochs(state) :
        /\ Cardinality(Leaving(state, e)) = MIN_PER_EPOCH_CHURN_LIMIT
        /\ Leaving(state, e + 1) # {}
        /\ \E i \in 1..Len(state.validators) :
               /\ state.validators[i].slashed
               /\ state.validators[i].exit_epoch # FAR_FUTURE_EPOCH
        /\ \E i \in 1..Len(state.validators) :
               /\ ~state.validators[i].slashed
               /\ state.validators[i].effective_balance > EJECTION_BALANCE
               /\ state.validators[i].exit_epoch # FAR_FUTURE_EPOCH
        /\ \E i \in 1..Len(state.validators) :
               /\ ~state.validators[i].slashed
               /\ state.validators[i].effective_balance <= EJECTION_BALANCE
               /\ state.validators[i].exit_epoch # FAR_FUTURE_EPOCH

\* the run process_epoch was given in the last call, a process_slots to the
\* first slot of the next epoch
RegistryEntry ==
    _process_slot(
        process_slots_loop(
            [ok |-> TRUE, at |-> "", done |-> <<>>,
             state |-> last_call.pre_state, held |-> last_call.pre_state,
             ctx |-> last_call.pre_ctx],
            last_call.pre_state.slot
                + (SLOTS_PER_EPOCH - 1 - (last_call.pre_state.slot % SLOTS_PER_EPOCH))))

\* initiate_validator_exit applied to the validators of indices from entry k
\* on, one by one
RECURSIVE ExitOneByOne(_, _, _, _)
ExitOneByOne(ctx, s, indices, k) ==
    IF k > Len(indices) THEN s
    ELSE ExitOneByOne(ctx, initiate_validator_exit(ctx, s, indices[k]), indices, k + 1)

ExitAndWithdrawableEpochs(s) ==
    [i \in 1..Len(s.validators) |->
        <<s.validators[i].exit_epoch, s.validators[i].withdrawable_epoch>>]

\* C35: the exit and withdrawable epochs the registry update of an epoch
\* transition gives the ejected validators (from the queue end and the churn
\* counter of the pre-pass, advanced as it goes) are those that
\* initiate_validator_exit gives them when applied to them one by one in
\* index order.
C35_EjectionsAsOneByOne ==
    (last_call.operations = "process_slots" /\ last_call.result = "accepted") =>
        \A a \in {RegistryEntry} :
        \A process \in {prepare_epoch_process_state(a.ctx, a.state)} :
            ExitAndWithdrawableEpochs(state)
                = ExitAndWithdrawableEpochs(
                      ExitOneByOne(a.ctx, a.state, process.indices_to_eject, 1))

\* an epoch transition ejected more validators than the queue had room for
\* at its end, where a validator that had left before was waiting
C35_Witness ==
    /\ last_call.operations = "process_slots"
    /\ last_call.result = "accepted"
    /\ ExitEpochs(last_call.pre_state) # {}
    /\ \E i \in NewlyLeaving : \E j \in NewlyLeaving :
           /\ state.validators[i].exit_epoch = SetMax(ExitEpochs(last_call.pre_state))
           /\ state.validators[j].exit_epoch = state.validators[i].exit_epoch + 1
    /\ Cardinality(NewlyLeaving) > MIN_PER_EPOCH_CHURN_LIMIT

(***************************************************************************)
(* The activation queue: a registry at the start of epoch StartEpoch with  *)
(* two active validators and more pending ones than the churn limit, with  *)
(* their eligibility epochs and the finalized epoch drawn from the epochs  *)
(* before StartEpoch.                                                      *)
(***************************************************************************)
ActiveAtStart == 2
PendingAtStart == 5
StartEpoch == 3
MaxActivationSteps == 2

\* the eligibility epochs a pending validator may start with, and the
\* pending validators that may start with none
Eligibilities == {1, 2}
UnsetSets == {{}, {1}, {5}}

ActivationState(eligibility, finalized) ==
    [GenesisState("none") EXCEPT
        !.slot = compute_start_slot_at_epoch(StartEpoch),
        !.latest_block_header.slot = compute_start_slot_at_epoch(StartEpoch) - 1,
        !.eth1_data.deposit_count = ActiveAtStart + PendingAtStart,
        !.eth1_deposit_index = ActiveAtStart + PendingAtStart,
        !.finalized_checkpoint.epoch = finalized,
        !.validators =
            [k \in 1..(ActiveAtStart + PendingAtStart) |->
                [pubkey |-> k,
                 effective_balance |-> MAX_EFFECTIVE_BALANCE,
                 slashed |-> FALSE,
                 activation_eligibility_epoch |->
                     IF k <= ActiveAtStart THEN GENESIS_EPOCH
                     ELSE eligibility[k - ActiveAtStart],
                 activation_epoch |->
                     IF k <= ActiveAtStart THEN GENESIS_EPOCH ELSE FAR_FUTURE_EPOCH,
                 exit_epoch |-> FAR_FUTURE_EPOCH,
                 withdrawable_epoch |-> FAR_FUTURE_EPOCH]],
        !.balances =
            [k \in 1..(ActiveAtStart + PendingAtStart) |-> MAX_EFFECTIVE_BALANCE]]

InitActivation ==
    /\ \E eligibility \in [1..PendingAtStart -> Eligibilities] :
       \E unset \in UnsetSets :
       \E finalized \in 0..(StartEpoch - 1) :
          state = ActivationState(
                      [k \in 1..PendingAtStart |->
                          IF k \in unset THEN FAR_FUTURE_EPOCH ELSE eligibility[k]],
                      finalized)
    /\ epochs_ctx = load_state(state)
    /\ last_call = [result |-> "none", at |-> "", done |-> <<>>,
                    pre_state |-> state, pre_ctx |-> epochs_ctx,
                    operations |-> "none", index |-> 0]
    /\ ntransitions = 0
    /\ DownloaderIdle
    /\ ShuffleIdle
    /\ CommitteeIdle

\* process_slots to the first slot of the next epoch
ActivationEpoch ==
    /\ ntransitions < MaxActivationSteps
    /\ \E t \in {process_slots(RegistryRun,
                               compute_start_slot_at_epoch(
                                   compute_epoch_at_slot(state.slot) + 1))} :
          /\ state' = IF t.ok THEN t.state ELSE t.held
          /\ epochs_ctx' = t.ctx
          /\ last_call' = [result |-> IF t.ok THEN "accepted" ELSE "rejected",
                           at |-> t.at,
                           done |-> t.done,
                           pre_state |-> state,
                           pre_ctx |-> epochs_ctx,
                           operations |-> "process_slots",
                           index |-> 0]
    /\ ntransitions' = ntransitions + 1
    /\ UNCHANGED notBeacon

NextActivation == ActivationEpoch

SpecActivation == InitActivation /\ [][NextActivation]_vars

\* the validators the last call gave an activation epoch
Activated ==
    {i \in 1..Len(state.validators) :
        /\ last_call.pre_state.validators[i].activation_epoch = FAR_FUTURE_EPOCH
        /\ state.validators[i].activation_epoch # FAR_FUTURE_EPOCH}

\* validator i comes before validator j in (eligibility, index) order
QueuedBefore(s, i, j) ==
    \/ s.validators[i].activation_eligibility_epoch
           < s.validators[j].activation_eligibility_epoch
    \/ /\ s.validators[i].activation_eligibility_epoch
              = s.validators[j].activation_eligibility_epoch
       /\ i < j

\* C36: one epoch transition gives at most churn limit validators an
\* activation epoch; each of them had no activation epoch and an
\* activation_eligibility_epoch not greater than the finalized epoch; they are
\* taken in increasing (activation_eligibility_epoch, index) order without
\* skipping an earlier one that qualifies; each gets activation_epoch =
\* current epoch + 1 + MAX_SEED_LOOKAHEAD; a validator whose eligibility is
\* set in the same transition is not activated in it.
C36_ActivationsInQueueOrder ==
    (last_call.operations = "process_slots" /\ last_call.result = "accepted") =>
        \A a \in {RegistryEntry} :
        \A limit \in {get_churn_limit(
                          Cardinality({i \in 1..Len(a.state.validators) :
                              is_active_validator(a.state.validators[i],
                                                  a.ctx.current_shuffling.epoch)}))} :
            LET old == a.state.validators
                qualifies(i) ==
                    /\ old[i].activation_epoch = FAR_FUTURE_EPOCH
                    /\ old[i].activation_eligibility_epoch
                           <= state.finalized_checkpoint.epoch
            IN  /\ Cardinality(Activated) <= limit
                /\ \A i \in Activated :
                       /\ qualifies(i)
                       /\ state.validators[i].activation_epoch
                              = a.ctx.current_shuffling.epoch + 1 + MAX_SEED_LOOKAHEAD
                       /\ \A j \in 1..Len(old) :
                              (qualifies(j) /\ QueuedBefore(a.state, j, i)) =>
                                  j \in Activated
                /\ (\E j \in 1..Len(old) : qualifies(j) /\ j \notin Activated) =>
                       Cardinality(Activated) = limit
                /\ \A i \in 1..Len(old) :
                       /\ old[i].activation_epoch # FAR_FUTURE_EPOCH =>
                              state.validators[i].activation_epoch
                                  = old[i].activation_epoch
                       /\ (/\ old[i].activation_eligibility_epoch = FAR_FUTURE_EPOCH
                           /\ state.validators[i].activation_eligibility_epoch
                                  # FAR_FUTURE_EPOCH) =>
                              /\ state.validators[i].activation_epoch
                                     = FAR_FUTURE_EPOCH
                              /\ state.validators[i].activation_eligibility_epoch
                                     = a.ctx.current_shuffling.epoch + 1

\* a transition activated as many validators as the churn limit allows, one
\* of them with a greater index than a later-eligible validator it left
\* waiting, while another validator that qualified stayed in the queue
C36_Witness ==
    /\ last_call.operations = "process_slots"
    /\ last_call.result = "accepted"
    /\ Cardinality(Activated) = MIN_PER_EPOCH_CHURN_LIMIT
    /\ \E i \in Activated :
       \E j \in 1..Len(state.validators) :
           /\ j < i
           /\ j \notin Activated
           /\ last_call.pre_state.validators[j].activation_eligibility_epoch
                  <= state.finalized_checkpoint.epoch
           /\ last_call.pre_state.validators[j].activation_epoch = FAR_FUTURE_EPOCH
           /\ state.validators[j].activation_epoch = FAR_FUTURE_EPOCH

(***************************************************************************)
(* Attester slashings: process_attester_slashing on the genesis state, for *)
(* every pair of attestation data with source and target epochs up to      *)
(* MaxVoteEpoch.                                                           *)
(***************************************************************************)
MaxVoteEpoch == 3
MaxSlashings == 1

Vote(source, target, root) ==
    [slot |-> compute_start_slot_at_epoch(target), index |-> 0,
     beacon_block_root |-> root,
     source |-> [epoch |-> source, root |-> 0],
     target |-> [epoch |-> target, root |-> root]]

Votes ==
    {Vote(source, target, root) :
        source \in 0..MaxVoteEpoch, target \in 0..MaxVoteEpoch, root \in {1, 2}}

\* the attesting indices of the two attestations: with validator 1 in both,
\* and with no validator in both
IndexPairs == {<<<<0, 1>>, <<1, 2>>>>, <<<<0, 1>>, <<2>>>>}

IndexedVote(ctx, indices, data, signed) ==
    [attesting_indices |-> indices,
     data |-> data,
     signature |->
         IF signed
         THEN Sign([k \in 1..Len(indices) |-> ctx.index2pubkey[indices[k] + 1]],
                   compute_signing_root(AttestationDataFields(data),
                                        DOMAIN_BEACON_ATTESTER))
         ELSE NoSignature]

InitSlashing ==
    /\ state = GenesisState("none")
    /\ epochs_ctx = load_state(state)
    /\ last_call = [result |-> "none", at |-> "", done |-> <<>>,
                    pre_state |-> state, pre_ctx |-> epochs_ctx,
                    operations |-> "none"]
    /\ ntransitions = 0
    /\ DownloaderIdle
    /\ ShuffleIdle
    /\ CommitteeIdle

AttesterSlashing ==
    /\ ntransitions < MaxSlashings
    /\ \E data_1 \in Votes, data_2 \in Votes, indices \in IndexPairs,
          signed \in BOOLEAN :
       \E attester_slashing \in
             {[attestation_1 |-> IndexedVote(epochs_ctx, indices[1], data_1, TRUE),
               attestation_2 |->
                   IndexedVote(epochs_ctx, indices[2], data_2, signed)]} :
       \E t \in {process_attester_slashing(RegistryRun, attester_slashing)} :
          /\ state' = IF t.ok THEN t.state ELSE t.held
          /\ epochs_ctx' = t.ctx
          /\ last_call' = [result |-> IF t.ok THEN "accepted" ELSE "rejected",
                           at |-> t.at,
                           done |-> t.done,
                           pre_state |-> state,
                           pre_ctx |-> epochs_ctx,
                           operations |-> "attester_slashing",
                           attester_slashing |-> attester_slashing]
    /\ ntransitions' = ntransitions + 1
    /\ UNCHANGED notBeacon

NextSlashing == AttesterSlashing

SpecSlashing == InitSlashing /\ [][NextSlashing]_vars

DoubleVote(data_1, data_2) ==
    data_1 # data_2 /\ data_1.target.epoch = data_2.target.epoch

\* a1.source < a2.source < a2.target < a1.target
SurroundVote(data_1, data_2) ==
    /\ data_1.source.epoch < data_2.source.epoch
    /\ data_2.source.epoch < data_2.target.epoch
    /\ data_2.target.epoch < data_1.target.epoch

\* a1.source < a2.source and a2.target < a1.target
Surrounds(data_1, data_2) ==
    /\ data_1.source.epoch < data_2.source.epoch
    /\ data_2.target.epoch < data_1.target.epoch

\* the indices of the validators the last call slashed
SlashedIndices == {i - 1 : i \in NewlySlashed}

InBoth(attester_slashing) ==
    Elements(attester_slashing.attestation_1.attesting_indices)
        \cap Elements(attester_slashing.attestation_2.attesting_indices)

\* C37 as stated: an attester slashing is accepted only if its two
\* attestation data are a double vote (different data, same target epoch) or
\* a surround vote a1.source < a2.source < a2.target < a1.target, and it
\* slashes at least one validator of the intersection of the two index
\* lists; every other pair of attestation data is rejected.
C37_DoubleOrSurroundVote ==
    (last_call.operations = "attester_slashing" /\ last_call.result = "accepted") =>
        /\ \/ DoubleVote(last_call.attester_slashing.attestation_1.data,
                         last_call.attester_slashing.attestation_2.data)
           \/ SurroundVote(last_call.attester_slashing.attestation_1.data,
                           last_call.attester_slashing.attestation_2.data)
        /\ SlashedIndices # {}
        /\ SlashedIndices \subseteq InBoth(last_call.attester_slashing)

\* C37 amended: the same with the surround vote a1.source < a2.source and
\* a2.target < a1.target, the source and target of a2 not being compared
\* with each other; a signed pair that is one of the two and has a
\* slashable validator in both lists is accepted.
C37_DoubleOrSurrounding ==
    last_call.operations = "attester_slashing" =>
        /\ last_call.result = "accepted" =>
               /\ \/ DoubleVote(last_call.attester_slashing.attestation_1.data,
                                last_call.attester_slashing.attestation_2.data)
                  \/ Surrounds(last_call.attester_slashing.attestation_1.data,
                               last_call.attester_slashing.attestation_2.data)
               /\ SlashedIndices # {}
               /\ SlashedIndices \subseteq InBoth(last_call.attester_slashing)
        /\ last_call.result = "rejected" =>
               \/ ~(\/ DoubleVote(last_call.attester_slashing.attestation_1.data,
                                  last_call.attester_slashing.attestation_2.data)
                    \/ Surrounds(last_call.attester_slashing.attestation_1.data,
                                 last_call.attester_slashing.attestation_2.data))
               \/ last_call.attester_slashing.attestation_2.signature = NoSignature
               \/ InBoth(last_call.attester_slashing) = {}

\* a surround vote that is no double vote was accepted and slashed the
\* validator in both lists
C37_Witness ==
    /\ last_call.operations = "attester_slashing"
    /\ last_call.result = "accepted"
    /\ SurroundVote(last_call.attester_slashing.attestation_1.data,
                    last_call.attester_slashing.attestation_2.data)
    /\ ~DoubleVote(last_call.attester_slashing.attestation_1.data,
                   last_call.attester_slashing.attestation_2.data)
    /\ SlashedIndices = {1}

\* effective_balance after the final-updates step, of a validator with
\* effective balance old and balance `balance`
WithHysteresis(old, balance) ==
    IF balance + DOWNWARD_THRESHOLD < old \/ old + UPWARD_THRESHOLD < balance
    THEN Min(balance - (balance % EFFECTIVE_BALANCE_INCREMENT), MAX_EFFECTIVE_BALANCE)
    ELSE old

\* C38: every validator's effective_balance is a multiple of
\* EFFECTIVE_BALANCE_INCREMENT and at most MAX_EFFECTIVE_BALANCE; a deposit
\* creates it as min(amount - amount mod increment, MAX_EFFECTIVE_BALANCE);
\* afterwards it changes only in the final-updates step of an epoch
\* transition, and only when balance + DOWNWARD_THRESHOLD < effective_balance
\* or effective_balance + UPWARD_THRESHOLD < balance, becoming
\* min(balance - balance mod increment, MAX_EFFECTIVE_BALANCE).
C38_EffectiveBalanceHysteresis ==
    /\ \A i \in 1..Len(state.validators) :
           /\ state.validators[i].effective_balance % EFFECTIVE_BALANCE_INCREMENT = 0
           /\ state.validators[i].effective_balance <= MAX_EFFECTIVE_BALANCE
    /\ Len(state.balances) = Len(state.validators)
    /\ Len(state.validators) >= Len(last_call.pre_state.validators)
    /\ EpochRuns = 0 =>
           /\ \A i \in 1..Len(last_call.pre_state.validators) :
                  state.validators[i].effective_balance
                      = last_call.pre_state.validators[i].effective_balance
           /\ \A i \in (Len(last_call.pre_state.validators) + 1)..Len(state.validators) :
                  state.validators[i].effective_balance
                      = Min(state.balances[i]
                                - (state.balances[i] % EFFECTIVE_BALANCE_INCREMENT),
                            MAX_EFFECTIVE_BALANCE)
    /\ (EpochRuns = 1 /\ last_call.operations = "process_slots") =>
           \A i \in 1..Len(state.validators) :
               state.validators[i].effective_balance
                   = WithHysteresis(last_call.pre_state.validators[i].effective_balance,
                                    state.balances[i])

\* an epoch transition lowered the effective balance of one validator and
\* left that of another, whose balance was within the thresholds but no
\* longer rounds to it
C38_Witness ==
    /\ EpochRuns = 1
    /\ last_call.operations = "process_slots"
    /\ \E i \in 1..Len(state.validators) :
           /\ state.validators[i].effective_balance
                  < last_call.pre_state.validators[i].effective_balance
           /\ state.validators[i].effective_balance > 0
    /\ \E i \in 1..Len(state.validators) :
           /\ state.validators[i].effective_balance
                  = last_call.pre_state.validators[i].effective_balance
           /\ state.validators[i].effective_balance
                  # Min(state.balances[i]
                            - (state.balances[i] % EFFECTIVE_BALANCE_INCREMENT),
                        MAX_EFFECTIVE_BALANCE)

\* a deposit created a validator in a call without an epoch transition
C38_WitnessDeposit ==
    /\ EpochRuns = 0
    /\ Len(state.validators) > Len(last_call.pre_state.validators)

\* an epoch transition raised an effective balance
C38_WitnessRaised ==
    /\ EpochRuns = 1
    /\ last_call.operations = "process_slots"
    /\ \E i \in 1..Len(state.validators) :
           state.validators[i].effective_balance
               > last_call.pre_state.validators[i].effective_balance

\* the last call accepted a block whose deposit process_deposit counted and
\* left at that
DepositDropped ==
    /\ last_call.result = "accepted"
    /\ \E k \in 1..Len(last_call.done) : last_call.done[k] = "eth1_deposit_index"

\* C39: a deposit with a valid Merkle proof for a pubkey the context does not
\* know whose signature does not verify is dropped silently: the block is
\* accepted, eth1_deposit_index advances by one, and the validators, the
\* balances and the pubkey tables of the context stay as they were; a
\* deposit whose Merkle proof is invalid rejects the block.
C39_UnsignedDepositDropped ==
    \A a \in {IF last_call.result = "none" THEN [ok |-> FALSE] ELSE AdvancedRun} :
        /\ (/\ a.ok
            /\ last_call.result = "accepted"
            /\ DueDeposits(a.state) = {"unsigned"}
            /\ state.eth1_data = a.state.eth1_data) => DepositDropped
        /\ DepositDropped =>
               /\ DueDeposits(a.state) = {"unsigned"}
               /\ Deposit("unsigned").data.pubkey \notin DOMAIN a.ctx.pubkey2index
               /\ state.eth1_deposit_index = a.state.eth1_deposit_index + 1
               /\ Len(state.validators) = Len(a.state.validators)
               /\ Len(state.balances) = Len(a.state.balances)
               /\ \A i \in 1..Len(state.validators) :
                      state.validators[i].pubkey = a.state.validators[i].pubkey
               /\ epochs_ctx.pubkey2index = a.ctx.pubkey2index
               /\ epochs_ctx.index2pubkey = a.ctx.index2pubkey
               /\ \A k \in 1..Len(last_call.done) :
                      last_call.done[k] # "process_deposit"
               /\ last_call.operations = "none" =>
                      /\ state.validators = a.state.validators
                      /\ state.balances = a.state.balances
        /\ last_call.at = "is_valid_merkle_branch" =>
               /\ last_call.result = "rejected"
               /\ state.eth1_deposit_index = last_call.pre_state.eth1_deposit_index
               /\ state.validators = last_call.pre_state.validators
               /\ state.balances = last_call.pre_state.balances

\* a block with nothing but the unsigned deposit was accepted: the index
\* moved on and validators and balances are those before the block
C39_Witness ==
    /\ DepositDropped
    /\ last_call.operations = "none"
    /\ state.eth1_deposit_index = last_call.pre_state.eth1_deposit_index + 1
    /\ state.eth1_deposit_index = state.eth1_data.deposit_count
    /\ state.validators = last_call.pre_state.validators
    /\ state.balances = last_call.pre_state.balances

\* a block was rejected for the Merkle proof of its deposit
C39_WitnessRejected ==
    /\ last_call.result = "rejected"
    /\ last_call.at = "is_valid_merkle_branch"

(***************************************************************************)
(* Wake-ups of ensure_nodes_present                                        *)
(***************************************************************************)
\* every hash the call of waiter w found missing is in the store
AllWritten(w) ==
    /\ wreq[w].missing # {}
    /\ \A h \in wreq[w].missing : _is_node_present(db, h)

\* C40: no wake-up is lost in ensure_nodes_present: once all the hashes a call
\* waits for are in the store, whenever after its missing-check they were
\* written (also while it was suspended in queue.add and before its event was
\* registered), the call is about to return with the full count, that is, it
\* does not sit in new_data.wait() with its event clear; and its event is out
\* of the shared set when it has returned.
C40_NoLostWakeUp ==
    \A w \in Waiters :
        /\ (wpc[w] = "waiting" /\ AllWritten(w)) => event_set[w]
        /\ wpc[w] = "returned" => w \notin new_data_events

\* the event of a call that has returned is out of the shared set
C40_EventRemovedOnReturn ==
    \A w \in Waiters : wpc[w] \in {"idle", "returned"} => w \notin new_data_events

C40_WitnessReturned ==
    \E w \in Waiters :
        /\ wpc[w] = "returned"
        /\ wresult[w] > 0
        /\ new_data_events = {}

====
